---- MODULE Spec2Model ----
(***************************************************************************)
(* Model of the GPIO command channel of raspberry-pi-chatgpt-server.       *)
(*                                                                         *)
(* Part 1 (specification Spec): GPIOController of                          *)
(* freenove_projects_board.py over a model of the RPi.GPIO hardware layer. *)
(*                                                                         *)
(* Part 2 (specification SpecClient): the supervisor clients               *)
(* SimpleGPIOClient (mcp_client.py), FixedGPIOClient (mcp_client_fixed.py) *)
(* and SimpleHTTPGPIOClient (simple_gpio_client.py), each with the worker  *)
(* processes it spawns. A blocking call with a timeout is a step that      *)
(* returns when its event has happened and a step that times out when it   *)
(* has not; the loops of the source keep their iteration counts.           *)
(***************************************************************************)
EXTENDS Integers, Sequences, FiniteSets, TLC

VARIABLES
    initialized,    \* GPIOController.initialized
    active_pins,    \* GPIOController.active_pins
    hwMode,         \* hardware layer: direction each channel was set up with
    hwLevel,        \* hardware layer: last level written to each channel
    simulated,      \* TRUE: simulated layer that remembers writes; FALSE: RPi.GPIO
    last,           \* the last controller call: arguments, pre-state, outcome
    written,        \* history: level of the last successful set per pin
    onlyOk,         \* history: every set/read so far succeeded, no cleanup ran
    okPins          \* history: pins of the successful set/read calls

ctlVars == <<initialized, active_pins, hwMode, hwLevel, simulated, last,
             written, onlyOk, okPins>>

VARIABLES
    kind,           \* the client class: "simple", "fixed" or "http"
    pc,             \* where the client's thread of control is
    ctx,            \* who runs _send_request: "call" or start_server ("start")
    server_process, \* server_process / service_process: 0 is None, else the pid
    request_id,     \* self.request_id
    cur_id,         \* request["id"] of the request being waited for
    base_url,       \* SimpleHTTPGPIOClient.base_url: 0 is None, else the port
    attempt,        \* iterations of the current wait loop
    cause,          \* why start_server is failing
    port_found,     \* start_service local
    error_found,    \* start_service local
    response_queue, \* FixedGPIOClient.response_queue
    stdout_thread,  \* a _read_stdout thread is running
    stderr_thread,  \* a _read_stderr thread is running
    spawned,        \* number of worker processes spawned so far
    exit_how,       \* per process: "running", "raising", or how it ended
    cleaned,        \* per process: the hardware teardown ran before it ended
    banner,         \* lines the attached HTTP service printed while importing
    alive,          \* per pid: the process has not exited
    sig,            \* per pid: the last signal sent to it
    port,           \* per pid: the port the service announced (0: none yet)
    listening,      \* per pid: the service has bound its port
    stdin,          \* pipe to the attached worker: request ids written
    stdout,         \* pipe from the attached worker: lines not yet read
    stderr,         \* pipe from the attached worker: lines not yet read
    markerSent,     \* history: the attached worker wrote its readiness marker
    exitedEarly,    \* history: it exited before its marker and before the first poll
    late,           \* history: FixedGPIOClient dropped a response with another id
    stopped,        \* history: a stop has returned and no start was called since
    scope,          \* "free": methods called directly; else the place in "with client:"
    res             \* the outcome of the last completed client operation

cliVars == <<kind, pc, ctx, server_process, request_id, cur_id, base_url, attempt,
             cause, port_found, error_found, response_queue, stdout_thread,
             stderr_thread, spawned, exit_how, cleaned, banner, alive, sig,
             port, listening, stdin, stdout,
             stderr, markerSent, exitedEarly, late, stopped, scope, res>>

\* Concurrent callers of the shared SyncGPIOClient (mcp_client.py, app.py)
VARIABLES
    caller_pc,      \* per caller: its place in _execute_with_client
    sent            \* history: the ids of the requests written, in order

syncVars == <<caller_pc, sent>>

\* The line-transport worker simple_gpio_server.py
VARIABLES
    echo_pc,        \* "off", "boot", "loop" or "done"
    echo_in,        \* the lines on its standard input that it has not read yet
    echo_out,       \* the lines it has written to its standard output
    echo_pairs      \* history: each line it read, with what it wrote for it

echoVars == <<echo_pc, echo_in, echo_out, echo_pairs>>

\* The request handlers in front of the controller (mcp_gpio_server.py,
\* simple_gpio_service.py) and the dispatch of app.py
VARIABLES
    reply,          \* what the last handler call returned
    handler_up      \* no exception has left a handler

handlerVars == <<reply, handler_up>>

\* find_available_port of simple_gpio_service.py and the ports of 127.0.0.1
VARIABLES
    in_use,         \* the ports some socket is bound to
    probe           \* the last find_available_port call: arguments and outcome

portVars == <<in_use, probe>>

\* The GPIO.setup calls of the controller, counted
VARIABLES
    setups          \* history: GPIO.setup calls per pin since the last cleanup

setupVars == <<setups>>

vars == <<ctlVars, cliVars, syncVars, echoVars, portVars, setupVars, handlerVars>>

----------------------------------------------------------------------------
(* Bounds of the inputs *)

NumPinInputs == 3
NumTokenInputs == 7
MaxSpawns == 1
MaxRequests == 3
MaxPipe == 1
MaxQueue == 1
NumCallers == 2
MaxId == 2
MaxLines == 3
MaxSetups == 2
MaxRestarts == 1

PinCandidates == <<18, 2, 22, 99, 24, 0>>

PinInputs == {PinCandidates[i] : i \in 1..NumPinInputs}

TokenCandidates ==
    << <<"o", "n">>,
       <<"H", "I", "G", "H">>,
       <<"1">>,
       <<"b", "o", "g", "u", "s">>,
       <<"l", "o", "w">>,
       <<"F", "A", "L", "S", "E", " ">>,
       <<" ", "T", "r", "u", "e", "\n">>,
       <<"0">>,
       <<"O", "f", "f">>,
       <<>>,
       <<"o", " ", "n">> >>

TokenInputs == {TokenCandidates[i] : i \in 1..NumTokenInputs}

\* the hardware call that raises during one controller call, if any
PinFaults == {"none", "setmode", "setup", "io"}
CleanupFaults == {"none", "cleanup"}

----------------------------------------------------------------------------
(* str.lower() and str.strip() on sequences of characters *)

UpperChars == <<"A", "B", "C", "D", "E", "F", "G", "H", "I", "J", "K", "L", "M",
                "N", "O", "P", "Q", "R", "S", "T", "U", "V", "W", "X", "Y", "Z">>
LowerChars == <<"a", "b", "c", "d", "e", "f", "g", "h", "i", "j", "k", "l", "m",
                "n", "o", "p", "q", "r", "s", "t", "u", "v", "w", "x", "y", "z">>

Whitespace == {" ", "\t", "\n", "\r"}

LowerMap ==
    [c \in {UpperChars[i] : i \in 1..Len(UpperChars)} |->
        LowerChars[CHOOSE i \in 1..Len(UpperChars) : UpperChars[i] = c]]

LowerChar(c) == IF c \in DOMAIN LowerMap THEN LowerMap[c] ELSE c

StrLower(s) == [i \in 1..Len(s) |-> LowerChar(s[i])]

StrStrip(s) ==
    LET keep == {i \in 1..Len(s) : s[i] \notin Whitespace}
    IN  IF keep = {} THEN <<>>
        ELSE LET lo == CHOOSE i \in keep : \A j \in keep : i <= j
                 hi == CHOOSE i \in keep : \A j \in keep : j <= i
             IN  SubSeq(s, lo, hi)

----------------------------------------------------------------------------
(* GPIOController helpers *)

valid_pins == {4, 5, 6, 12, 13, 16, 17, 18, 19, 20, 21, 22, 23, 24, 25, 26, 27}

\* the pins a list holds
PinsIn(list) == {list[i] : i \in 1..Len(list)}

\* a listing that follows the error message of set_gpio_output
list_valid_gpio_pins_by_message ==
    LET pins == <<2, 4, 6, 7, 9, 11, 12, 13, 14, 15, 16, 17, 18, 19, 20, 21, 22,
                  23, 24, 25, 26, 27>>
    IN  [valid_pins |-> pins, total_pins |-> Len(pins)]

\* mcp_gpio_server.py, tool list_valid_gpio_pins
list_valid_gpio_pins ==
    LET pins == <<4, 5, 6, 12, 13, 16, 17, 18, 19, 20, 21, 22, 23, 24, 25, 26, 27>>
    IN  [valid_pins |-> pins, total_pins |-> Len(pins)]

\* DirectGPIOClient.list_valid_pins
direct_list_valid_pins ==
    [valid_pins |-> <<4, 5, 6, 12, 13, 16, 17, 18, 19, 20, 21, 22, 23, 24, 25, 26, 27>>,
     total_pins |-> 17]

\* SyncHTTPGPIOClient.list_valid_pins
sync_http_list_valid_pins ==
    [valid_pins |-> <<4, 5, 6, 12, 13, 16, 17, 18, 19, 20, 21, 22, 23, 24, 25, 26, 27>>,
     total_pins |-> 17]

\* a validator that follows the error message of set_gpio_output instead
is_valid_pin_by_message(pin) == pin \in (2..27) \ {3, 5, 8, 10}

is_valid_pin(pin) == pin \in valid_pins

\* a parser that forgets to fold the case
parse_state_case_sensitive(state) ==
    LET state_lower == StrStrip(state)
    IN  IF state_lower \in {<<"h", "i", "g", "h">>, <<"o", "n">>, <<"1">>,
                            <<"t", "r", "u", "e">>}
        THEN "True"
        ELSE IF state_lower \in {<<"l", "o", "w">>, <<"o", "f", "f">>, <<"0">>,
                                 <<"f", "a", "l", "s", "e">>}
        THEN "False"
        ELSE "None"

parse_state(state) ==
    LET state_lower == StrStrip(StrLower(state))
    IN  IF state_lower \in {<<"h", "i", "g", "h">>, <<"o", "n">>, <<"1">>,
                            <<"t", "r", "u", "e">>}
        THEN "True"
        ELSE IF state_lower \in {<<"l", "o", "w">>, <<"o", "f", "f">>, <<"0">>,
                                 <<"f", "a", "l", "s", "e">>}
        THEN "False"
        ELSE "None"

state_name(gpio_state) == IF gpio_state THEN "HIGH" ELSE "LOW"

\* a registry that forgets pins claimed as inputs
claim_outputs_only(pins, pin, mode) == IF mode = "output" THEN pins \cup {pin} ELSE pins

\* self.active_pins.add(pin)
claim(pins, pin, mode) == pins \cup {pin}

\* setup_pin: the registry and hardware after the call, and how it ended
setup_pin(pin, mode, fault) ==
    IF ~initialized /\ fault = "setmode"
    THEN [raised |-> TRUE, ok |-> FALSE, initialized |-> initialized,
          active_pins |-> active_pins, hwMode |-> hwMode, called |-> FALSE]
    ELSE IF mode \notin {"output", "input"} \/ fault = "setup"
    THEN [raised |-> FALSE, ok |-> FALSE, initialized |-> TRUE,
          active_pins |-> active_pins, hwMode |-> hwMode,
          called |-> mode \in {"output", "input"}]
    ELSE [raised |-> FALSE, ok |-> TRUE, initialized |-> TRUE,
          active_pins |-> claim(active_pins, pin, mode),
          hwMode |-> [hwMode EXCEPT ![pin] = mode], called |-> TRUE]

\* an operation that sets the pin up again although it is claimed
already_claimed_setup_again(pin, mode, fault) == setup_pin(pin, mode, fault)

\* if pin not in self.active_pins: ... else: setup_pin is not called
already_claimed(pin, mode, fault) ==
    [raised |-> FALSE, ok |-> TRUE, initialized |-> initialized,
     active_pins |-> active_pins, hwMode |-> hwMode, called |-> FALSE]

\* history: one more GPIO.setup call on the pin, counted up to MaxSetups
count_setup(pin, called) ==
    IF called /\ setups[pin] < MaxSetups
    THEN [setups EXCEPT ![pin] = @ + 1]
    ELSE setups

\* a hardware layer that drops the write
gpio_output_dropped(levels, pin, gpio_state) == levels

\* GPIO.output(pin, gpio_state): the levels the hardware layer holds afterwards
gpio_output(levels, pin, gpio_state) == [levels EXCEPT ![pin] = gpio_state]

\* GPIO.output raises on a channel that RPi.GPIO has not set up as an output
gpio_output_fails(mode, fault) == fault = "io" \/ (~simulated /\ mode # "output")

\* GPIO.input(pin): the levels a read can return
gpio_input(pin, mode) ==
    IF simulated \/ mode = "output" THEN {hwLevel[pin]} ELSE BOOLEAN

\* list(self.active_pins): the elements once each, in an order the set decides
ListsOf(S) ==
    {s \in [1..Cardinality(S) -> S] : \A i, j \in 1..Cardinality(S) : i # j => s[i] # s[j]}

NoCall == [op |-> "none", pin |-> 0, state |-> <<>>, outcome |-> "none",
           success |-> FALSE, message |-> "none", level |-> "none",
           fault |-> "none",
           pre_active |-> {}, pre_initialized |-> FALSE, pre_mode |-> "none",
           pre_level |-> FALSE,
           status_pins |-> <<>>, pin_count |-> 0, status_initialized |-> FALSE,
           status_keys |-> {}, setup_called |-> FALSE]

Call(op, pin, state, fault) ==
    [NoCall EXCEPT !.op = op, !.pin = pin, !.state = state, !.fault = fault,
                   !.pre_active = active_pins, !.pre_initialized = initialized,
                   !.pre_mode = IF pin \in DOMAIN hwMode THEN hwMode[pin] ELSE "none",
                   !.pre_level = IF pin \in DOMAIN hwLevel THEN hwLevel[pin] ELSE FALSE]

Returned(call, success, message, level) ==
    [call EXCEPT !.outcome = "returned", !.success = success,
                 !.message = message, !.level = level]

Raised(call) == [call EXCEPT !.outcome = "raised", !.message = "exception"]

----------------------------------------------------------------------------
(* GPIOController operations *)

InitController ==
    /\ initialized = FALSE
    /\ active_pins = {}
    /\ hwMode = [p \in PinInputs |-> "none"]
    /\ hwLevel = [p \in PinInputs |-> FALSE]
    /\ simulated \in BOOLEAN
    /\ last = NoCall
    /\ written = [p \in PinInputs |-> "none"]
    /\ onlyOk = TRUE
    /\ okPins = {}

Failed(pin) ==
    /\ onlyOk' = FALSE
    /\ okPins' = okPins

Succeeded(pin) ==
    /\ onlyOk' = onlyOk
    /\ okPins' = okPins \cup {pin}

set_gpio_output(pin, state, fault) ==
    LET call == Call("set", pin, state, fault) IN
    /\ simulated' = simulated
    /\ IF ~is_valid_pin(pin)
       THEN /\ last' = Returned(call, FALSE, "invalid_pin", "none")
            /\ UNCHANGED <<initialized, active_pins, hwMode, hwLevel, written>>
            /\ Failed(pin)
       ELSE
       LET su == IF pin \notin active_pins
                 THEN setup_pin(pin, "output", fault)
                 ELSE already_claimed(pin, "output", fault)
           gpio_state == parse_state(state)
           done == [call EXCEPT !.setup_called = su.called]
       IN
       /\ initialized' = su.initialized
       /\ active_pins' = su.active_pins
       /\ hwMode' = su.hwMode
       /\ IF su.raised
          THEN /\ last' = Raised(done)
               /\ UNCHANGED hwLevel
               /\ written' = [written EXCEPT ![pin] = "none"]
               /\ Failed(pin)
          ELSE IF ~su.ok
          THEN /\ last' = Returned(done, FALSE, "setup_failed", "none")
               /\ UNCHANGED hwLevel
               /\ written' = [written EXCEPT ![pin] = "none"]
               /\ Failed(pin)
          ELSE IF gpio_state = "None"
          THEN /\ last' = Returned(done, FALSE, "invalid_state", "none")
               /\ UNCHANGED hwLevel
               /\ written' = [written EXCEPT ![pin] = "none"]
               /\ Failed(pin)
          ELSE IF gpio_output_fails(su.hwMode[pin], fault)
          THEN /\ last' = Returned(done, FALSE, "error", "none")
               /\ UNCHANGED hwLevel
               /\ written' = [written EXCEPT ![pin] = "none"]
               /\ Failed(pin)
          ELSE /\ hwLevel' = gpio_output(hwLevel, pin, gpio_state = "True")
               /\ last' = Returned(done, TRUE, "ok", state_name(gpio_state = "True"))
               /\ written' = [written EXCEPT ![pin] = state_name(gpio_state = "True")]
               /\ Succeeded(pin)

read_gpio_input(pin, fault) ==
    LET call == Call("read", pin, <<>>, fault) IN
    /\ UNCHANGED <<simulated, hwLevel, written>>
    /\ IF ~is_valid_pin(pin)
       THEN /\ last' = Returned(call, FALSE, "invalid_pin", "none")
            /\ UNCHANGED <<initialized, active_pins, hwMode>>
            /\ Failed(pin)
       ELSE
       LET su == IF pin \notin active_pins
                 THEN setup_pin(pin, "input", fault)
                 ELSE already_claimed(pin, "input", fault)
           done == [call EXCEPT !.setup_called = su.called]
       IN
       /\ initialized' = su.initialized
       /\ active_pins' = su.active_pins
       /\ hwMode' = su.hwMode
       /\ IF su.raised
          THEN last' = Raised(done) /\ Failed(pin)
          ELSE IF ~su.ok
          THEN last' = Returned(done, FALSE, "setup_failed", "none") /\ Failed(pin)
          ELSE IF fault = "io"
          THEN last' = Returned(done, FALSE, "error", "none") /\ Failed(pin)
          ELSE /\ \E state \in gpio_input(pin, su.hwMode[pin]) :
                    last' = Returned(done, TRUE, "ok", state_name(state))
               /\ Succeeded(pin)

\* the keys of the dict that get_pin_status builds
status_dict_keys == {"initialized", "active_pins", "pin_count"}

\* the keys the status handlers add to the dict they got
handler_keys == {"system", "gpio_mode", "server_status"}

\* a status call that sets the controller up as setup_pin does
get_pin_status_initializing ==
    /\ \E pins \in ListsOf(active_pins) :
         last' = [Returned(Call("status", 0, <<>>, "none"), TRUE, "ok", "none")
                    EXCEPT !.status_pins = pins,
                           !.pin_count = Cardinality(active_pins),
                           !.status_initialized = initialized,
                           !.status_keys = status_dict_keys]
    /\ initialized' = TRUE
    /\ UNCHANGED <<active_pins, hwMode, hwLevel, simulated,
                   written, onlyOk, okPins>>

get_pin_status ==
    /\ \E pins \in ListsOf(active_pins) :
         last' = [Returned(Call("status", 0, <<>>, "none"), TRUE, "ok", "none")
                    EXCEPT !.status_pins = pins,
                           !.pin_count = Cardinality(active_pins),
                           !.status_initialized = initialized,
                           !.status_keys = status_dict_keys]
    /\ UNCHANGED <<initialized, active_pins, hwMode, hwLevel, simulated,
                   written, onlyOk, okPins>>

\* status.update({...}) in the status handlers: the dict that get_pin_status
\* returned is a new one, with a new list in it, and only it changes
status_update ==
    /\ last.op = "status"
    /\ ~(handler_keys \subseteq last.status_keys)
    /\ last' = [last EXCEPT !.status_keys = @ \cup handler_keys]
    /\ UNCHANGED <<initialized, active_pins, hwMode, hwLevel, simulated,
                   written, onlyOk, okPins>>

\* a cleanup that clears the registry and leaves initialized as it was
cleanup_keeps_initialized(fault) ==
    /\ simulated' = simulated
    /\ onlyOk' = FALSE
    /\ okPins' = okPins
    /\ IF fault = "cleanup"
       THEN /\ last' = Returned(Call("cleanup", 0, <<>>, fault), FALSE, "error", "none")
            /\ UNCHANGED <<initialized, active_pins, hwMode, hwLevel>>
            /\ written' = [p \in PinInputs |-> "none"]
       ELSE /\ last' = Returned(Call("cleanup", 0, <<>>, fault), TRUE, "ok", "none")
            /\ active_pins' = {}
            /\ initialized' = initialized
            /\ hwMode' = [p \in PinInputs |-> "none"]
            /\ hwLevel' = [p \in PinInputs |-> FALSE]
            /\ written' = [p \in PinInputs |-> "none"]

\* a cleanup that resets initialized and leaves the registry as it was
cleanup_keeps_pins(fault) ==
    /\ simulated' = simulated
    /\ onlyOk' = FALSE
    /\ okPins' = okPins
    /\ IF fault = "cleanup"
       THEN /\ last' = Returned(Call("cleanup", 0, <<>>, fault), FALSE, "error", "none")
            /\ UNCHANGED <<initialized, active_pins, hwMode, hwLevel>>
            /\ written' = [p \in PinInputs |-> "none"]
       ELSE /\ last' = Returned(Call("cleanup", 0, <<>>, fault), TRUE, "ok", "none")
            /\ active_pins' = active_pins
            /\ initialized' = FALSE
            /\ hwMode' = hwMode
            /\ hwLevel' = hwLevel
            /\ written' = [p \in PinInputs |-> "none"]

cleanup(fault) ==
    /\ simulated' = simulated
    /\ onlyOk' = FALSE
    /\ okPins' = okPins
    /\ IF fault = "cleanup"
       THEN /\ last' = Returned(Call("cleanup", 0, <<>>, fault), FALSE, "error", "none")
            /\ UNCHANGED <<initialized, active_pins, hwMode, hwLevel>>
            /\ written' = [p \in PinInputs |-> "none"]
       ELSE /\ last' = Returned(Call("cleanup", 0, <<>>, fault), TRUE, "ok", "none")
            /\ active_pins' = {}
            /\ initialized' = FALSE
            /\ hwMode' = [p \in PinInputs |-> "none"]
            /\ hwLevel' = [p \in PinInputs |-> FALSE]
            /\ written' = [p \in PinInputs |-> "none"]

SetPin == \E pin \in PinInputs, state \in TokenInputs, fault \in PinFaults :
              set_gpio_output(pin, state, fault)
    /\ UNCHANGED <<cliVars, syncVars, echoVars, portVars, setupVars, handlerVars>>

ReadPin == \E pin \in PinInputs, fault \in PinFaults : read_gpio_input(pin, fault)
    /\ UNCHANGED <<cliVars, syncVars, echoVars, portVars, setupVars, handlerVars>>

GetStatus == get_pin_status /\ UNCHANGED <<cliVars, syncVars, echoVars, portVars, setupVars, handlerVars>>

StatusUpdate == status_update /\ UNCHANGED <<cliVars, syncVars, echoVars, portVars, setupVars, handlerVars>>

Cleanup == \E fault \in CleanupFaults : cleanup(fault)
    /\ UNCHANGED <<cliVars, syncVars, echoVars, portVars, setupVars, handlerVars>>

\* The same operations with the GPIO.setup calls counted ----------------------

SetupTokens == TokenInputs \cap {<<"o", "n">>, <<"b", "o", "g", "u", "s">>}
SetupFaults == {"none", "setup", "io"}

NoSetups == setups = [p \in PinInputs |-> 0]

setupFrame == <<cliVars, syncVars, echoVars, portVars, handlerVars>>

SetupSet ==
    /\ \E pin \in PinInputs, state \in SetupTokens, fault \in SetupFaults :
         set_gpio_output(pin, state, fault)
    /\ setups' = count_setup(last'.pin, last'.setup_called)
    /\ UNCHANGED setupFrame

SetupRead ==
    /\ \E pin \in PinInputs, fault \in SetupFaults : read_gpio_input(pin, fault)
    /\ setups' = count_setup(last'.pin, last'.setup_called)
    /\ UNCHANGED setupFrame

SetupStatus == get_pin_status /\ UNCHANGED setups /\ UNCHANGED setupFrame

SetupCleanup ==
    /\ \E fault \in CleanupFaults : cleanup(fault)
    /\ setups' = IF last'.success THEN [p \in PinInputs |-> 0] ELSE setups
    /\ UNCHANGED setupFrame

SetupNext == SetupSet \/ SetupRead \/ SetupStatus \/ SetupCleanup

----------------------------------------------------------------------------
(* The request handlers: handle_call_tool of mcp_gpio_server.py, the routes
   /gpio/set and /gpio/read of simple_gpio_service.py, and /api/gpio of
   app.py *)

\* the tools that handle_list_tools advertises, and a name that is none of them
AdvertisedTools == {"set_gpio_pin", "read_gpio_pin", "get_gpio_status",
                    "list_valid_gpio_pins"}
ToolNames == AdvertisedTools \cup {"toggle_gpio_pin"}

\* the actions /api/gpio knows, and one it does not
KnownActions == {"set_output", "read_input"}
ActionNames == KnownActions \cup {"toggle"}

\* the arguments of a request: complete and of the right types, without a
\* required one, or with a pin that is no integer
ArgForms == {"ok", "missing", "not_int"}

\* what the handlers are called with: a pin of the list and one outside it,
\* a token that is an alias and one that is none, and the hardware call that
\* makes the controller raise
HandlerPins == PinInputs \cap {18, 2}
HandlerTokens == TokenInputs \cap {<<"o", "n">>, <<"b", "o", "g", "u", "s">>}
HandlerFaults == {"none", "setmode"}

NoReply == [handler |-> "none", name |-> "none", outcome |-> "none",
            why |-> "none", echo |-> "none", code |-> 0]

\* the HTTP status of a response of the Flask routes: 400 where the route
\* says so, 500 from its except clause, and 200, the default of
\* "return jsonify(result)", for whatever the operation returned;
\* handle_call_tool has no status
status_code(handler, why) ==
    IF handler = "call_tool" THEN 0
    ELSE IF why \in {"missing", "unknown"} THEN 400
    ELSE IF why \in {"validation", "controller"} THEN 500
    ELSE 200

Reply(handler, name, outcome, why, echo) ==
    [handler |-> handler, name |-> name, outcome |-> outcome, why |-> why,
     echo |-> echo, code |-> status_code(handler, why)]

NoHandler == reply = NoReply /\ handler_up = TRUE

\* a handler with no except clause: the exception leaves it
on_exception_propagate(handler, name, why) ==
    /\ reply' = Reply(handler, name, "raised", why, "none")
    /\ handler_up' = FALSE

\* except Exception as e: the handler returns a failure that carries str(e);
\* handle_call_tool adds the name of the tool
on_exception(handler, name, why) ==
    /\ reply' = Reply(handler, name, "failure", why,
                      IF handler = "call_tool" THEN name ELSE "none")
    /\ handler_up' = TRUE

\* the result of the controller call is returned as the response
on_result(handler, name) ==
    /\ reply' = Reply(handler, name, IF last'.success THEN "result" ELSE "failure",
                      "none", "none")
    /\ handler_up' = TRUE

\* @self.server.call_tool() handle_call_tool(name, arguments)
handle_call_tool(name, form, pin, state, fault) ==
    /\ handler_up
    /\ IF name = "set_gpio_pin"
       THEN IF form # "ok"
            THEN UNCHANGED ctlVars /\ on_exception("call_tool", name, "validation")
            ELSE /\ set_gpio_output(pin, state, fault)
                 /\ IF last'.outcome = "raised"
                    THEN on_exception("call_tool", name, "controller")
                    ELSE on_result("call_tool", name)
       ELSE IF name = "read_gpio_pin"
       THEN IF form # "ok"
            THEN UNCHANGED ctlVars /\ on_exception("call_tool", name, "validation")
            ELSE /\ read_gpio_input(pin, fault)
                 /\ IF last'.outcome = "raised"
                    THEN on_exception("call_tool", name, "controller")
                    ELSE on_result("call_tool", name)
       ELSE IF name = "get_gpio_status"
       THEN /\ \E pins \in ListsOf(active_pins) :
                 last' = [Returned(Call("status", 0, <<>>, "none"), TRUE, "ok", "none")
                            EXCEPT !.status_pins = pins,
                                   !.pin_count = Cardinality(active_pins),
                                   !.status_initialized = initialized,
                                   !.status_keys = status_dict_keys \cup handler_keys]
            /\ UNCHANGED <<initialized, active_pins, hwMode, hwLevel, simulated,
                           written, onlyOk, okPins>>
            /\ on_result("call_tool", name)
       ELSE IF name = "list_valid_gpio_pins"
       THEN /\ UNCHANGED ctlVars
            /\ reply' = Reply("call_tool", name, "result", "none", "none")
            /\ handler_up' = TRUE
       ELSE /\ UNCHANGED ctlVars
            /\ reply' = Reply("call_tool", name, "unknown", "none", name)
            /\ handler_up' = TRUE

\* @app.route('/gpio/set'): set_gpio_pin of simple_gpio_service.py
service_set_gpio_pin(form, pin, state, fault) ==
    /\ handler_up
    /\ IF form = "missing"
       THEN /\ UNCHANGED ctlVars
            /\ reply' = Reply("service", "set", "failure", "missing", "none")
            /\ handler_up' = TRUE
       ELSE IF form = "not_int"
       THEN UNCHANGED ctlVars /\ on_exception("service", "set", "validation")
       ELSE /\ set_gpio_output(pin, state, fault)
            /\ IF last'.outcome = "raised"
               THEN on_exception("service", "set", "controller")
               ELSE on_result("service", "set")

\* @app.route('/gpio/read'): read_gpio_pin of simple_gpio_service.py
service_read_gpio_pin(form, pin, fault) ==
    /\ handler_up
    /\ IF form = "missing"
       THEN /\ UNCHANGED ctlVars
            /\ reply' = Reply("service", "read", "failure", "missing", "none")
            /\ handler_up' = TRUE
       ELSE IF form = "not_int"
       THEN UNCHANGED ctlVars /\ on_exception("service", "read", "validation")
       ELSE /\ read_gpio_input(pin, fault)
            /\ IF last'.outcome = "raised"
               THEN on_exception("service", "read", "controller")
               ELSE on_result("service", "read")

\* @app.route('/api/gpio'): gpio_control of app.py. The known actions go
\* through mcp_gpio_client to a worker process that is spawned for the call,
\* so the result is whatever that worker returns and no controller of this
\* process is touched
gpio_control(action, form) ==
    /\ handler_up
    /\ UNCHANGED ctlVars
    /\ handler_up' = TRUE
    /\ IF action \in KnownActions
       THEN IF form = "missing"
            THEN reply' = Reply("gpio_control", action, "failure", "missing", "none")
            ELSE IF form = "not_int"
            THEN reply' = Reply("gpio_control", action, "failure", "validation", "none")
            ELSE \E outcome \in {"result", "failure"} :
                     reply' = Reply("gpio_control", action, outcome, "none", "none")
       ELSE reply' = Reply("gpio_control", action, "failure", "unknown", "none")

\* the arguments that a request with these names and this form carries
PinsOf(form) == IF form = "ok" THEN HandlerPins ELSE {0}
TokensOf(name, form) ==
    IF form = "ok" /\ name \in {"set_gpio_pin", "set"} THEN HandlerTokens ELSE {<<>>}
FaultsOf(form) == IF form = "ok" THEN HandlerFaults ELSE {"none"}

HandleCallTool ==
    /\ \E name \in ToolNames :
         \E form \in IF name \in {"set_gpio_pin", "read_gpio_pin"} THEN ArgForms ELSE {"ok"} :
         \E pin \in IF name \in {"set_gpio_pin", "read_gpio_pin"} THEN PinsOf(form) ELSE {0} :
         \E state \in TokensOf(name, form) :
         \E fault \in IF name \in {"set_gpio_pin", "read_gpio_pin"} THEN FaultsOf(form) ELSE {"none"} :
            handle_call_tool(name, form, pin, state, fault)
    /\ UNCHANGED <<cliVars, syncVars, echoVars, portVars, setupVars>>

ServiceSet ==
    /\ \E form \in ArgForms :
         \E pin \in PinsOf(form), state \in TokensOf("set", form), fault \in FaultsOf(form) :
            service_set_gpio_pin(form, pin, state, fault)
    /\ UNCHANGED <<cliVars, syncVars, echoVars, portVars, setupVars>>

ServiceRead ==
    /\ \E form \in ArgForms :
         \E pin \in PinsOf(form), fault \in FaultsOf(form) :
            service_read_gpio_pin(form, pin, fault)
    /\ UNCHANGED <<cliVars, syncVars, echoVars, portVars, setupVars>>

GpioControl ==
    /\ \E action \in ActionNames, form \in ArgForms : gpio_control(action, form)
    /\ UNCHANGED <<cliVars, syncVars, echoVars, portVars, setupVars>>

HandlerNext == HandleCallTool \/ ServiceSet \/ ServiceRead \/ GpioControl

----------------------------------------------------------------------------
(* Supervisor clients and the worker processes they spawn *)

READY_ATTEMPTS == 50
start_port == 5001
import_prints == 5
max_attempts == 10

Kinds == {"simple", "fixed", "http"}
\* the processes one client can spawn: MaxSpawns by start_server, MaxRestarts
\* more where a client is started again
Pids == 1..(MaxSpawns + MaxRestarts)

procVars == <<spawned, exit_how, cleaned, banner, alive, sig, port, listening>>
pipeVars == <<stdin, stdout, stderr>>
fixedVars == <<response_queue, stdout_thread, stderr_thread>>
httpVars == <<base_url, port_found, error_found>>
histVars == <<markerSent, exitedEarly, late, stopped>>
idVars == <<request_id, cur_id>>

\* a line on a pipe, and an entry of response_queue
Line(t, id, err) == [t |-> t, id |-> id, err |-> err]
Item(src, line) ==
    [src |-> src, t |-> line.t, id |-> line.id, err |-> line.err,
     pid |-> server_process]

NoResult == [op |-> "none", outcome |-> "none", cause |-> "none",
             req |-> 0, resp |-> 0, pid |-> 0, handle |-> 0]

Result(op, outcome, why, req, resp, pid, handle) ==
    [op |-> op, outcome |-> outcome, cause |-> why,
     req |-> req, resp |-> resp, pid |-> pid, handle |-> handle]

\* the state of a client object after __init__, before any worker exists
ClientInit(k) ==
    /\ kind = k
    /\ pc = "idle"
    /\ ctx = "call"
    /\ server_process = 0
    /\ request_id = 0
    /\ cur_id = 0
    /\ base_url = 0
    /\ attempt = 0
    /\ cause = "none"
    /\ port_found = FALSE
    /\ error_found = FALSE
    /\ response_queue = <<>>
    /\ stdout_thread = FALSE
    /\ stderr_thread = FALSE
    /\ spawned = 0
    /\ exit_how = [p \in Pids |-> "running"]
    /\ cleaned = [p \in Pids |-> FALSE]
    /\ banner = 0
    /\ alive = [p \in Pids |-> FALSE]
    /\ sig = [p \in Pids |-> "none"]
    /\ port = [p \in Pids |-> 0]
    /\ listening = [p \in Pids |-> FALSE]
    /\ stdin = <<>>
    /\ stdout = <<>>
    /\ stderr = <<>>
    /\ markerSent = FALSE
    /\ exitedEarly = FALSE
    /\ late = FALSE
    /\ stopped = FALSE
    /\ res = NoResult

NoClient == ClientInit("none")

\* the client holds a process that has not exited
Attached == server_process # 0 /\ alive[server_process]

\* Popen.terminate(): SIGTERM, which reaches only a process that still runs
terminate(pid) == [sig EXCEPT ![pid] = IF alive[pid] THEN "term" ELSE @]

\* Popen.kill(): SIGKILL
kill(pid) == [sig EXCEPT ![pid] = IF alive[pid] THEN "kill" ELSE @]

\* self.server_process = None: the Popen object and its pipes are dropped
Detach ==
    /\ server_process' = 0
    /\ stdin' = <<>>
    /\ stdout' = <<>>
    /\ stderr' = <<>>

\* how _send_request ends: it returns or raises to its caller, which is either
\* the application (ctx "call") or start_server's initialize step (ctx "start")
Finish(c, outcome, why, req, resp) ==
    IF c = "start" /\ outcome # "ok"
    THEN /\ pc' = "start_fail"
         /\ cause' = "init"
         /\ res' = res
    ELSE /\ pc' = "idle"
         /\ cause' = cause
         /\ res' = Result(IF c = "start" THEN "start" ELSE "call", outcome, why,
                          req, resp, server_process, server_process)

\* a method called directly (scope "free"), or as the next call of
\* "with self.client: return operation(self.client)": __enter__ calls
\* start_server, the body calls the operation once start_server has returned
\* without raising, __exit__ calls stop_server once the body has ended
in_scope(op) ==
    IF scope = "free"
    THEN scope' = "free"
    ELSE /\ op = "start" => scope = "out"
         /\ op = "call" => scope = "entered" /\ res.op = "start" /\ res.outcome # "error"
         /\ op = "stop" => scope = "body"
         /\ scope' = IF op = "start" THEN "entered"
                     ELSE IF op = "call" THEN "body" ELSE "exiting"

----------------------------------------------------------------------------
(* start_server / start_service *)

\* the guard at the top and subprocess.Popen, for a client that spawns at most
\* limit processes
start_server_upto(limit) ==
    /\ pc = "idle"
    /\ IF server_process # 0
       THEN /\ res' = Result("start", "already", "none", 0, 0,
                             server_process, server_process)
            /\ stopped' = FALSE
            /\ UNCHANGED <<pc, ctx, server_process, attempt, cause, procVars,
                           pipeVars, fixedVars, httpVars, markerSent, exitedEarly, late>>
       ELSE /\ spawned < limit
            /\ spawned' = spawned + 1
            /\ alive' = [alive EXCEPT ![spawned + 1] = TRUE]
            /\ server_process' = spawned + 1
            /\ stdin' = <<>>
            /\ stdout' = <<>>
            /\ stderr' = <<>>
            /\ attempt' = 0
            /\ cause' = "none"
            /\ markerSent' = FALSE
            /\ exitedEarly' = FALSE
            /\ late' = FALSE
            /\ stopped' = FALSE
            /\ port_found' = FALSE
            /\ error_found' = FALSE
            /\ stdout_thread' = (kind = "fixed" \/ stdout_thread)
            /\ stderr_thread' = (kind = "fixed" \/ stderr_thread)
            /\ pc' = IF kind = "fixed" THEN "start_wait" ELSE "start_poll"
            /\ res' = NoResult
            /\ banner' = 0
            /\ UNCHANGED <<ctx, sig, port, listening, response_queue, base_url,
                           exit_how, cleaned>>
    /\ UNCHANGED <<kind, idVars>>
    /\ in_scope("start")
    /\ UNCHANGED <<ctlVars, syncVars, echoVars, portVars, setupVars, handlerVars>>

start_server == start_server_upto(MaxSpawns)

\* start_server of a client that was started before
restart_server == start_server_upto(MaxSpawns + MaxRestarts)

\* SimpleGPIOClient: for attempt in range(50): if poll() is not None: raise
simple_start_poll ==
    /\ kind = "simple"
    /\ pc = "start_poll"
    /\ IF attempt >= READY_ATTEMPTS
       THEN pc' = "start_fail" /\ cause' = "timeout" /\ attempt' = 0
       ELSE IF ~alive[server_process]
       THEN pc' = "start_fail" /\ cause' = "exited" /\ attempt' = 0
       ELSE pc' = "start_select" /\ cause' = cause /\ attempt' = attempt
    /\ UNCHANGED <<kind, ctx, server_process, idVars, res, procVars,
                   pipeVars, fixedVars, httpVars, histVars>>
    /\ UNCHANGED <<ctlVars, syncVars, echoVars, portVars, setupVars, handlerVars, scope>>

\* select on stderr for 0.1 s, readline, look for the marker, sleep 0.1 s
simple_start_select ==
    /\ kind = "simple"
    /\ pc = "start_select"
    /\ IF stderr # <<>>
       THEN /\ stderr' = Tail(stderr)
            /\ IF Head(stderr).t = "ready"
               THEN pc' = "start_drain" /\ attempt' = 0
               ELSE pc' = "start_poll" /\ attempt' = attempt + 1
       ELSE /\ stderr' = stderr
            /\ pc' = "start_poll"
            /\ attempt' = attempt + 1
    /\ UNCHANGED <<kind, ctx, server_process, idVars, cause, res, procVars,
                   stdin, stdout, fixedVars, httpVars, histVars>>
    /\ UNCHANGED <<ctlVars, syncVars, echoVars, portVars, setupVars, handlerVars, scope>>

\* after the marker: select on stderr for 0.1 s and, if readable, stderr.read()
simple_start_drain ==
    /\ kind = "simple"
    /\ pc = "start_drain"
    /\ pc' = IF stderr # <<>> \/ ~alive[server_process]
             THEN "start_drain_read" ELSE "start_init"
    /\ UNCHANGED <<kind, ctx, server_process, idVars, attempt, cause, res,
                   procVars, pipeVars, fixedVars, httpVars, histVars>>
    /\ UNCHANGED <<ctlVars, syncVars, echoVars, portVars, setupVars, handlerVars, scope>>

\* stderr.read() returns at end of file, that is once the worker has exited
simple_start_drain_read ==
    /\ kind = "simple"
    /\ pc = "start_drain_read"
    /\ ~alive[server_process]
    /\ stderr' = <<>>
    /\ pc' = "start_init"
    /\ UNCHANGED <<kind, ctx, server_process, idVars, attempt, cause, res,
                   procVars, stdin, stdout, fixedVars, httpVars, histVars>>
    /\ UNCHANGED <<ctlVars, syncVars, echoVars, portVars, setupVars, handlerVars, scope>>

\* FixedGPIOClient: while time.time() - start_time < timeout: an iteration
\* whose get(timeout=0.1) returned an item
fixed_start_wait ==
    /\ kind = "fixed"
    /\ pc = "start_wait"
    /\ response_queue # <<>>
    /\ response_queue' = Tail(response_queue)
    /\ pc' = IF Head(response_queue).src = "stderr"
                /\ Head(response_queue).t = "ready"
             THEN "start_init" ELSE "start_wait"
    /\ UNCHANGED <<kind, ctx, server_process, idVars, attempt, cause, res,
                   procVars, pipeVars, stdout_thread, stderr_thread, httpVars,
                   histVars>>
    /\ UNCHANGED <<ctlVars, syncVars, echoVars, portVars, setupVars, handlerVars, scope>>

\* FixedGPIOClient: the 10 s of the loop are over, server_ready is False
fixed_start_timeout ==
    /\ kind = "fixed"
    /\ pc = "start_wait"
    /\ pc' = "start_fail"
    /\ cause' = "timeout"
    /\ UNCHANGED <<kind, ctx, server_process, idVars, attempt, res, procVars,
                   pipeVars, fixedVars, httpVars, histVars>>
    /\ UNCHANGED <<ctlVars, syncVars, echoVars, portVars, setupVars, handlerVars, scope>>

\* a loop that does not look at poll()
http_start_poll_no_exit_check ==
    /\ kind = "http"
    /\ pc = "start_poll"
    /\ IF attempt >= READY_ATTEMPTS
       THEN pc' = "start_after_loop" /\ cause' = cause /\ attempt' = 0
       ELSE pc' = "start_readline" /\ cause' = cause /\ attempt' = attempt
    /\ UNCHANGED <<kind, ctx, server_process, idVars, res, procVars,
                   pipeVars, fixedVars, httpVars, histVars>>
    /\ UNCHANGED <<ctlVars, syncVars, echoVars, portVars, setupVars, handlerVars, scope>>

\* SimpleHTTPGPIOClient: for _ in range(50): if poll() is not None: raise
http_start_poll ==
    /\ kind = "http"
    /\ pc = "start_poll"
    /\ IF attempt >= READY_ATTEMPTS
       THEN pc' = "start_after_loop" /\ cause' = cause /\ attempt' = 0
       ELSE IF ~alive[server_process]
       THEN pc' = "start_fail" /\ cause' = "exited" /\ attempt' = 0
       ELSE pc' = "start_readline" /\ cause' = cause /\ attempt' = attempt
    /\ UNCHANGED <<kind, ctx, server_process, idVars, res, procVars,
                   pipeVars, fixedVars, httpVars, histVars>>
    /\ UNCHANGED <<ctlVars, syncVars, echoVars, portVars, setupVars, handlerVars, scope>>

\* line = stdout.readline() inside try/except: pass, then sleep 0.1 s
http_start_readline ==
    /\ kind = "http"
    /\ pc = "start_readline"
    /\ stdout # <<>> \/ ~alive[server_process]
    /\ IF stdout # <<>> /\ Head(stdout).t = "port"
       THEN /\ base_url' = Head(stdout).id
            /\ port_found' = TRUE
            /\ pc' = "start_after_loop"
            /\ attempt' = 0
            /\ error_found' = error_found
       ELSE /\ error_found' = (error_found \/ (stdout # <<>> /\ Head(stdout).t = "service_error"))
            /\ attempt' = attempt + 1
            /\ pc' = "start_poll"
            /\ UNCHANGED <<base_url, port_found>>
    /\ stdout' = IF stdout # <<>> THEN Tail(stdout) ELSE stdout
    /\ UNCHANGED <<kind, ctx, server_process, idVars, cause, res, procVars,
                   stdin, stderr, fixedVars, histVars>>
    /\ UNCHANGED <<ctlVars, syncVars, echoVars, portVars, setupVars, handlerVars, scope>>

\* The port search of the service -------------------------------------------

\* the calls of find_available_port explored: start_port and the port after
\* it, over ranges of up to MaxProbe ports
MaxProbe == 3
ProbeStarts == {start_port, start_port + 1}
ProbeLengths == 0..MaxProbe
PortNumbers == (start_port - 1)..(start_port + MaxProbe + 1)

NoProbe == in_use = {} /\ probe = [called |-> FALSE, start |-> 0, n |-> 0, busy |-> {}, port |-> 0]

\* for port in range(start, stop): bind; return port; except OSError: continue.
\* 0 stands for the RuntimeError raised after the loop.
RECURSIVE bind_from(_, _, _)
bind_from(p, stop, busy) ==
    IF p >= stop THEN 0
    ELSE IF p \notin busy THEN p
    ELSE bind_from(p + 1, stop, busy)

find_available_port_past_end(start, n, busy) == bind_from(start, start + n + 1, busy)

find_available_port_in(start, n, busy) == bind_from(start, start + n, busy)

\* some process binds a port of 127.0.0.1, as app.run does
port_bind(p) ==
    /\ p \notin in_use
    /\ in_use' = in_use \cup {p}
    /\ UNCHANGED probe

\* a socket is closed, as at the end of "with socket.socket(...) as s"
port_close(p) ==
    /\ p \in in_use
    /\ in_use' = in_use \ {p}
    /\ UNCHANGED probe

\* find_available_port(start, n): the probing socket is closed on return, so
\* the ports in use are as before
call_find_available_port(start, n) ==
    /\ probe' = [called |-> TRUE, start |-> start, n |-> n, busy |-> in_use,
                 port |-> find_available_port_in(start, n, in_use)]
    /\ UNCHANGED in_use

portFrame == <<ctlVars, cliVars, syncVars, echoVars, handlerVars, setupVars>>

PortBind == (\E p \in PortNumbers : port_bind(p)) /\ UNCHANGED portFrame

PortClose == (\E p \in PortNumbers : port_close(p)) /\ UNCHANGED portFrame

FindAvailablePort ==
    /\ \E start \in ProbeStarts, n \in ProbeLengths : call_find_available_port(start, n)
    /\ UNCHANGED portFrame

PortNext == PortBind \/ PortClose \/ FindAvailablePort

\* an HTTP request to port p is answered by the process listening there
Listener(p) == {q \in Pids : alive[q] /\ listening[q] /\ port[q] = p}

\* after the loop: the timeout test, then the health check
http_start_after_loop ==
    /\ kind = "http"
    /\ pc = "start_after_loop"
    /\ IF ~port_found /\ ~error_found
       THEN pc' = "start_fail" /\ cause' = "timeout" /\ res' = res
       ELSE IF port_found /\ Listener(base_url) = {}
       THEN pc' = "start_fail" /\ cause' = "health" /\ res' = res
       ELSE /\ pc' = "idle"
            /\ cause' = cause
            /\ res' = Result("start", "ok", IF port_found THEN "none" ELSE "error_found",
                             0, 0, server_process, server_process)
    /\ UNCHANGED <<kind, ctx, server_process, idVars, attempt, procVars,
                   pipeVars, fixedVars, httpVars, histVars>>
    /\ UNCHANGED <<ctlVars, syncVars, echoVars, portVars, setupVars, handlerVars, scope>>

\* the return of the except clause: terminate() and forget, or wait for the exit
start_fail_forget ==
    /\ sig' = terminate(server_process)
    /\ Detach
    /\ res' = Result("start", "error", cause, cur_id, 0, server_process, 0)
    /\ pc' = "idle"

\* except Exception: terminate(); self.server_process = None; raise
start_fail ==
    /\ pc = "start_fail"
    /\ start_fail_forget
    /\ UNCHANGED <<kind, ctx, idVars, attempt, cause, spawned, exit_how,
                   cleaned, banner, alive, port,
                   listening, fixedVars, httpVars, histVars>>
    /\ UNCHANGED <<ctlVars, syncVars, echoVars, portVars, setupVars, handlerVars, scope>>

----------------------------------------------------------------------------
(* _send_request *)

\* a write to the pipe of a worker that has exited, taken as delivered
send_request_no_pipe_check(c) ==
    IF server_process = 0
    THEN /\ pc' = "idle"
         /\ res' = Result("call", "error", "not_started", 0, 0, 0, 0)
         /\ UNCHANGED <<ctx, idVars, attempt, cause, stdin>>
    ELSE /\ request_id < MaxRequests
         /\ request_id' = request_id + 1
         /\ cur_id' = request_id + 1
         /\ ctx' = c
         /\ stdin' = Append(stdin, request_id + 1)
         /\ attempt' = 0
         /\ pc' = "call_wait"
         /\ res' = NoResult
         /\ cause' = cause

\* the guard, the id, and the write to the worker's stdin
send_request(c) ==
    IF server_process = 0
    THEN /\ pc' = "idle"
         /\ res' = Result("call", "error", "not_started", 0, 0, 0, 0)
         /\ UNCHANGED <<ctx, idVars, attempt, cause, stdin>>
    ELSE /\ request_id < MaxRequests
         /\ request_id' = request_id + 1
         /\ cur_id' = request_id + 1
         /\ ctx' = c
         /\ IF ~alive[server_process]
            THEN /\ Finish(c, "error", "broken_pipe", request_id + 1, 0)
                 /\ UNCHANGED <<attempt, stdin>>
            ELSE /\ stdin' = Append(stdin, request_id + 1)
                 /\ attempt' = 0
                 /\ pc' = "call_wait"
                 /\ res' = NoResult
                 /\ cause' = cause

\* set_gpio_pin / read_gpio_pin / get_gpio_status of the stdio clients
stdio_call ==
    /\ kind \in {"simple", "fixed"}
    /\ pc = "idle"
    /\ send_request("call")
    /\ UNCHANGED <<kind, server_process, procVars, stdout, stderr, fixedVars,
                   httpVars, histVars>>
    /\ in_scope("call")
    /\ UNCHANGED <<ctlVars, syncVars, echoVars, portVars, setupVars, handlerVars>>

\* start_server: self._send_request("initialize", ...)
start_initialize ==
    /\ kind \in {"simple", "fixed"}
    /\ pc = "start_init"
    /\ send_request("start")
    /\ UNCHANGED <<kind, server_process, procVars, stdout, stderr, fixedVars,
                   httpVars, histVars>>
    /\ UNCHANGED <<ctlVars, syncVars, echoVars, portVars, setupVars, handlerVars, scope>>

\* a client that compares the id of the line it read with the id it sent
simple_accepts_own_id(line) == line.id = cur_id

\* SimpleGPIOClient takes the next line on stdout as the response
simple_accepts(line) == TRUE

\* SimpleGPIOClient: select on stdout became readable, readline, json.loads
simple_call_read ==
    /\ kind = "simple"
    /\ pc = "call_wait"
    /\ stdout # <<>> \/ ~alive[server_process]
    /\ IF stdout = <<>>
       THEN /\ Finish(ctx, "error", "terminated", cur_id, 0)
            /\ stdout' = stdout
       ELSE /\ stdout' = Tail(stdout)
            /\ IF Head(stdout).t # "resp" \/ ~simple_accepts(Head(stdout))
               THEN Finish(ctx, "error", "invalid_json", cur_id, 0)
               ELSE IF Head(stdout).err
               THEN Finish(ctx, "error", "server_error", cur_id, Head(stdout).id)
               ELSE Finish(ctx, "ok", "none", cur_id, Head(stdout).id)
    /\ UNCHANGED <<kind, ctx, server_process, idVars, attempt, procVars, stdin,
                   stderr, fixedVars, httpVars, histVars>>
    /\ UNCHANGED <<ctlVars, syncVars, echoVars, portVars, setupVars, handlerVars, scope>>

\* SimpleGPIOClient: select returned nothing within 10 s
simple_call_timeout ==
    /\ kind = "simple"
    /\ pc = "call_wait"
    /\ stdout = <<>>
    /\ alive[server_process]
    /\ Finish(ctx, "error", "timeout", cur_id, 0)
    /\ UNCHANGED <<kind, ctx, server_process, idVars, attempt, procVars,
                   pipeVars, fixedVars, httpVars, histVars>>
    /\ UNCHANGED <<ctlVars, syncVars, echoVars, portVars, setupVars, handlerVars, scope>>

\* a wait loop that takes any response on stdout as its own
fixed_call_wait_any_id ==
    /\ kind = "fixed"
    /\ pc = "call_wait"
    /\ response_queue # <<>>
    /\ LET item == Head(response_queue) IN
         /\ response_queue' = Tail(response_queue)
         /\ attempt' = attempt
         /\ IF item.src = "error"
            THEN Finish(ctx, "error", "reader_error", cur_id, 0) /\ late' = late
            ELSE IF item.src = "stdout" /\ item.t = "resp"
            THEN /\ late' = late
                 /\ IF item.err
                    THEN Finish(ctx, "error", "server_error", cur_id, item.id)
                    ELSE Finish(ctx, "ok", "none", cur_id, item.id)
            ELSE /\ late' = (late \/ (item.src = "stdout" /\ item.t = "resp"))
                 /\ UNCHANGED <<pc, cause, res>>
    /\ UNCHANGED <<kind, ctx, server_process, idVars, procVars, pipeVars,
                   stdout_thread, stderr_thread, httpVars, markerSent,
                   exitedEarly, stopped>>
    /\ UNCHANGED <<ctlVars, syncVars, echoVars, portVars, setupVars, handlerVars, scope>>

\* FixedGPIOClient: an iteration of the loop whose get(timeout=0.1) returned
\* an item: if response.get("id") == request["id"]
fixed_call_wait ==
    /\ kind = "fixed"
    /\ pc = "call_wait"
    /\ response_queue # <<>>
    /\ LET item == Head(response_queue) IN
         /\ response_queue' = Tail(response_queue)
         /\ attempt' = attempt
         /\ IF item.src = "error"
            THEN Finish(ctx, "error", "reader_error", cur_id, 0) /\ late' = late
            ELSE IF item.src = "stdout" /\ item.t = "resp" /\ item.id = cur_id
            THEN /\ late' = late
                 /\ IF item.err
                    THEN Finish(ctx, "error", "server_error", cur_id, item.id)
                    ELSE Finish(ctx, "ok", "none", cur_id, item.id)
            ELSE /\ late' = (late \/ (item.src = "stdout" /\ item.t = "resp"))
                 /\ UNCHANGED <<pc, cause, res>>
    /\ UNCHANGED <<kind, ctx, server_process, idVars, procVars, pipeVars,
                   stdout_thread, stderr_thread, httpVars, markerSent,
                   exitedEarly, stopped>>
    /\ UNCHANGED <<ctlVars, syncVars, echoVars, portVars, setupVars, handlerVars, scope>>

\* FixedGPIOClient: the 10 s of the loop are over: raise TimeoutError
fixed_call_timeout ==
    /\ kind = "fixed"
    /\ pc = "call_wait"
    /\ Finish(ctx, "error", "timeout", cur_id, 0)
    /\ UNCHANGED <<kind, ctx, server_process, idVars, attempt, procVars,
                   pipeVars, fixedVars, httpVars, histVars>>
    /\ UNCHANGED <<ctlVars, syncVars, echoVars, portVars, setupVars, handlerVars, scope>>

\* _read_stdout: readline on the worker's stdout, put ('stdout', line)
read_stdout ==
    /\ kind = "fixed"
    /\ stdout_thread
    /\ server_process # 0
    /\ alive[server_process]
    /\ stdout # <<>>
    /\ Len(response_queue) < MaxQueue
    /\ response_queue' = Append(response_queue, Item("stdout", Head(stdout)))
    /\ stdout' = Tail(stdout)
    /\ UNCHANGED <<kind, pc, ctx, server_process, idVars, attempt, cause, res,
                   procVars, stdin, stderr, stdout_thread, stderr_thread,
                   httpVars, histVars>>
    /\ UNCHANGED <<ctlVars, syncVars, echoVars, portVars, setupVars, handlerVars, scope>>

\* _read_stderr: readline on the worker's stderr, put ('stderr', line)
read_stderr ==
    /\ kind = "fixed"
    /\ stderr_thread
    /\ server_process # 0
    /\ alive[server_process]
    /\ stderr # <<>>
    /\ Len(response_queue) < MaxQueue
    /\ response_queue' = Append(response_queue, Item("stderr", Head(stderr)))
    /\ stderr' = Tail(stderr)
    /\ UNCHANGED <<kind, pc, ctx, server_process, idVars, attempt, cause, res,
                   procVars, stdin, stdout, stdout_thread, stderr_thread,
                   httpVars, histVars>>
    /\ UNCHANGED <<ctlVars, syncVars, echoVars, portVars, setupVars, handlerVars, scope>>

\* the reader loops end once server_process is None or poll() is not None
readers_exit ==
    /\ kind = "fixed"
    /\ stdout_thread \/ stderr_thread
    /\ ~Attached
    /\ stdout_thread' = FALSE
    /\ stderr_thread' = FALSE
    /\ UNCHANGED <<kind, pc, ctx, server_process, idVars, attempt, cause, res,
                   procVars, pipeVars, response_queue, httpVars, histVars>>
    /\ UNCHANGED <<ctlVars, syncVars, echoVars, portVars, setupVars, handlerVars, scope>>

\* SimpleHTTPGPIOClient.set_gpio_pin / read_gpio_pin / get_gpio_status:
\* requests.post / get on base_url with timeout=10, RequestException caught
http_call ==
    /\ kind = "http"
    /\ pc = "idle"
    /\ res' = IF base_url = 0
              THEN Result("call", "error", "no_url", 0, 0, 0, server_process)
              ELSE IF Listener(base_url) = {}
              THEN Result("call", "error", "refused", 0, 0, 0, server_process)
              ELSE Result("call", "ok", "none", 0, 0,
                          CHOOSE q \in Listener(base_url) : TRUE, server_process)
    /\ UNCHANGED <<kind, pc, ctx, server_process, idVars, attempt, cause,
                   procVars, pipeVars, fixedVars, httpVars, histVars>>
    /\ in_scope("call")
    /\ UNCHANGED <<ctlVars, syncVars, echoVars, portVars, setupVars, handlerVars>>

----------------------------------------------------------------------------
(* stop_server / stop_service *)

\* a stop that signals every process still running, held or not
stop_noop_signalling ==
    /\ res' = Result("stop", "noop", "none", 0, 0, 0, 0)
    /\ stopped' = TRUE
    /\ sig' = [p \in Pids |-> IF alive[p] THEN "kill" ELSE sig[p]]
    /\ pc' = pc

\* if not self.server_process: return
stop_noop ==
    /\ res' = Result("stop", "noop", "none", 0, 0, 0, 0)
    /\ stopped' = TRUE
    /\ UNCHANGED <<pc, sig>>

\* the guard and terminate()
stop_server ==
    /\ pc = "idle"
    /\ IF server_process = 0
       THEN stop_noop
       ELSE /\ sig' = terminate(server_process)
            /\ pc' = "stop_wait"
            /\ res' = NoResult
            /\ stopped' = stopped
    /\ UNCHANGED <<kind, ctx, server_process, idVars, attempt, cause, spawned,
                   exit_how, cleaned, banner,
                   alive, port, listening, pipeVars, fixedVars, httpVars,
                   markerSent, exitedEarly, late>>
    /\ in_scope("stop")
    /\ UNCHANGED <<ctlVars, syncVars, echoVars, portVars, setupVars, handlerVars>>

\* finally: self.server_process = None, and return
stop_return ==
    /\ res' = Result("stop", "stopped", "none", 0, 0, server_process, server_process)
    /\ stopped' = TRUE
    /\ Detach
    /\ pc' = "idle"

\* wait(timeout=5.0) returned: the worker has exited within the grace period
stop_wait_exited ==
    /\ pc = "stop_wait"
    /\ ~alive[server_process]
    /\ stop_return
    /\ UNCHANGED <<kind, ctx, idVars, attempt, cause, procVars, fixedVars,
                   httpVars, markerSent, exitedEarly, late>>
    /\ UNCHANGED <<ctlVars, syncVars, echoVars, portVars, setupVars, handlerVars, scope>>

\* a stop that does not wait for the killed process
stop_kill_no_wait ==
    /\ sig' = kill(server_process)
    /\ stop_return

\* except TimeoutExpired: kill(), then wait()
stop_kill ==
    /\ sig' = kill(server_process)
    /\ pc' = "stop_kill_wait"
    /\ UNCHANGED <<server_process, pipeVars, res, stopped>>

\* wait(timeout=5.0) raised TimeoutExpired: the worker is still running
stop_wait_timeout ==
    /\ pc = "stop_wait"
    /\ alive[server_process]
    /\ stop_kill
    /\ UNCHANGED <<kind, ctx, idVars, attempt, cause, spawned, exit_how,
                   cleaned, banner, alive, port,
                   listening, fixedVars, httpVars, markerSent, exitedEarly, late>>
    /\ UNCHANGED <<ctlVars, syncVars, echoVars, portVars, setupVars, handlerVars, scope>>

\* wait() after kill() returns once the process has exited
stop_kill_wait ==
    /\ pc = "stop_kill_wait"
    /\ ~alive[server_process]
    /\ stop_return
    /\ UNCHANGED <<kind, ctx, idVars, attempt, cause, procVars, fixedVars,
                   httpVars, markerSent, exitedEarly, late>>
    /\ UNCHANGED <<ctlVars, syncVars, echoVars, portVars, setupVars, handlerVars, scope>>

----------------------------------------------------------------------------
(* Worker processes: what a spawned worker can do *)

\* a stdio worker writes its readiness marker to stderr
worker_ready ==
    /\ kind \in {"simple", "fixed"}
    /\ Attached
    /\ ~markerSent
    /\ Len(stderr) < MaxPipe
    /\ stderr' = Append(stderr, Line("ready", 0, FALSE))
    /\ markerSent' = TRUE
    /\ UNCHANGED <<kind, pc, ctx, server_process, idVars, attempt, cause, res,
                   procVars, stdin, stdout, fixedVars, httpVars, exitedEarly, late, stopped>>
    /\ UNCHANGED <<ctlVars, syncVars, echoVars, portVars, setupVars, handlerVars, scope>>

\* a worker logs a line to stderr
worker_log ==
    /\ Attached
    /\ Len(stderr) < MaxPipe
    /\ stderr' = Append(stderr, Line("log", 0, FALSE))
    /\ UNCHANGED <<kind, pc, ctx, server_process, idVars, attempt, cause, res,
                   procVars, stdin, stdout, fixedVars, httpVars, histVars>>
    /\ UNCHANGED <<ctlVars, syncVars, echoVars, portVars, setupVars, handlerVars, scope>>

\* a stdio worker reads one request and writes its response, with the request's id
worker_respond ==
    /\ kind \in {"simple", "fixed"}
    /\ Attached
    /\ stdin # <<>>
    /\ \E err \in BOOLEAN : stdout' = Append(stdout, Line("resp", Head(stdin), err))
    /\ stdin' = Tail(stdin)
    /\ UNCHANGED <<kind, pc, ctx, server_process, idVars, attempt, cause, res,
                   procVars, stderr, fixedVars, httpVars, histVars>>
    /\ UNCHANGED <<ctlVars, syncVars, echoVars, portVars, setupVars, handlerVars, scope>>

\* import of freenove_projects_board: one line on stdout when RPi.GPIO is
\* there, five when it is not
worker_banner ==
    /\ kind = "http"
    /\ Attached
    /\ exit_how[server_process] = "running"
    /\ port[server_process] = 0
    /\ banner < import_prints
    /\ Len(stdout) < MaxPipe
    /\ stdout' = Append(stdout, Line("text", 0, FALSE))
    /\ banner' = banner + 1
    /\ UNCHANGED <<kind, pc, ctx, server_process, idVars, attempt, cause, res,
                   spawned, exit_how, cleaned, alive, sig, port, listening, stdin,
                   stderr, fixedVars, httpVars, histVars>>
    /\ UNCHANGED <<ctlVars, syncVars, echoVars, portVars, setupVars, handlerVars, scope>>

\* run_service: port = find_available_port(), among the listening services
find_available_port ==
    find_available_port_in(start_port, max_attempts,
        {p \in start_port..(start_port + max_attempts - 1) : Listener(p) # {}})

\* run_service: print SERVICE_PORT:<port>
worker_announce ==
    /\ kind = "http"
    /\ Attached
    /\ exit_how[server_process] = "running"
    /\ port[server_process] = 0
    /\ find_available_port # 0
    /\ Len(stdout) < MaxPipe
    /\ port' = [port EXCEPT ![server_process] = find_available_port]
    /\ stdout' = Append(stdout, Line("port", find_available_port, FALSE))
    /\ UNCHANGED <<kind, pc, ctx, server_process, idVars, attempt, cause, res,
                   spawned, exit_how, cleaned, banner, alive, sig, listening,
                   stdin, stderr, fixedVars,
                   httpVars, histVars>>
    /\ UNCHANGED <<ctlVars, syncVars, echoVars, portVars, setupVars, handlerVars, scope>>

\* run_service: app.run binds the announced port
worker_listen ==
    /\ kind = "http"
    /\ \E q \in Pids :
         /\ alive[q]
         /\ exit_how[q] = "running"
         /\ port[q] # 0
         /\ ~listening[q]
         /\ Listener(port[q]) = {}
         /\ listening' = [listening EXCEPT ![q] = TRUE]
    /\ UNCHANGED <<kind, pc, ctx, server_process, idVars, attempt, cause, res,
                   spawned, exit_how, cleaned, banner, alive, sig, port,
                   pipeVars, fixedVars, httpVars,
                   histVars>>
    /\ UNCHANGED <<ctlVars, syncVars, echoVars, portVars, setupVars, handlerVars, scope>>

\* run_service: except Exception: print SERVICE_ERROR:<e>, then raise, which
\* ends the process
worker_service_error ==
    /\ kind = "http"
    /\ Attached
    /\ exit_how[server_process] = "running"
    /\ ~listening[server_process]
    /\ Len(stdout) < MaxPipe
    /\ stdout' = Append(stdout, Line("service_error", 0, FALSE))
    /\ exit_how' = [exit_how EXCEPT ![server_process] = "raising"]
    /\ UNCHANGED <<kind, pc, ctx, server_process, idVars, attempt, cause, res,
                   spawned, cleaned, banner, alive, sig, port, listening, stdin,
                   stderr, fixedVars, httpVars, histVars>>
    /\ UNCHANGED <<ctlVars, syncVars, echoVars, portVars, setupVars, handlerVars, scope>>

\* the ways a process can end: a signal that was sent ends it, an exception
\* that is propagating ends it, otherwise it returns or raises
exit_ways(q) ==
    IF sig[q] = "kill" THEN {"kill"}
    ELSE IF sig[q] = "term" THEN {"term"}
    ELSE IF exit_how[q] = "raising" THEN {"error"}
    ELSE {"normal", "error"}

\* mcp_gpio_server.main runs cleanup_gpio() in its finally clause, which a
\* signal with no handler does not reach; run_service never calls cleanup_gpio
teardown_runs(k, how) == k \in {"simple", "fixed"} /\ how \in {"normal", "error"}

\* a worker process ends: by itself, on SIGTERM, or on SIGKILL
worker_exit ==
    /\ \E q \in Pids :
         /\ alive[q]
         /\ alive' = [alive EXCEPT ![q] = FALSE]
         /\ \E how \in exit_ways(q) :
              /\ exit_how' = [exit_how EXCEPT ![q] = how]
              /\ cleaned' = [cleaned EXCEPT ![q] = teardown_runs(kind, how)]
         /\ exitedEarly' = IF q = server_process
                         THEN pc \in {"start_poll", "start_wait"} /\ attempt = 0 /\ ~markerSent
                         ELSE exitedEarly
    /\ UNCHANGED <<kind, pc, ctx, server_process, idVars, attempt, cause, res,
                   spawned, banner, sig, port, listening, pipeVars, fixedVars,
                   httpVars, markerSent, late, stopped>>
    /\ UNCHANGED <<ctlVars, syncVars, echoVars, portVars, setupVars, handlerVars, scope>>

\* __enter__ raised: the exception leaves the with statement, __exit__ is not
\* called
scope_raise ==
    /\ scope = "entered"
    /\ pc = "idle"
    /\ res.op = "start"
    /\ res.outcome = "error"
    /\ scope' = "out"
    /\ UNCHANGED <<kind, pc, ctx, server_process, idVars, attempt, cause, res,
                   procVars, pipeVars, fixedVars, httpVars, histVars>>
    /\ UNCHANGED <<ctlVars, syncVars, echoVars, portVars, setupVars, handlerVars>>

\* __exit__ has returned: the with statement is left
scope_leave ==
    /\ scope = "exiting"
    /\ pc = "idle"
    /\ scope' = "out"
    /\ UNCHANGED <<kind, pc, ctx, server_process, idVars, attempt, cause, res,
                   procVars, pipeVars, fixedVars, httpVars, histVars>>
    /\ UNCHANGED <<ctlVars, syncVars, echoVars, portVars, setupVars, handlerVars>>

ClientNext ==
    \/ start_server
    \/ simple_start_poll
    \/ simple_start_select
    \/ simple_start_drain
    \/ simple_start_drain_read
    \/ fixed_start_wait
    \/ fixed_start_timeout
    \/ http_start_poll
    \/ http_start_readline
    \/ http_start_after_loop
    \/ start_fail
    \/ stdio_call
    \/ start_initialize
    \/ simple_call_read
    \/ simple_call_timeout
    \/ fixed_call_wait
    \/ fixed_call_timeout
    \/ read_stdout
    \/ read_stderr
    \/ readers_exit
    \/ http_call
    \/ stop_server
    \/ stop_wait_exited
    \/ stop_wait_timeout
    \/ stop_kill_wait
    \/ scope_raise
    \/ scope_leave
    \/ worker_ready
    \/ worker_log
    \/ worker_respond
    \/ worker_banner
    \/ worker_announce
    \/ worker_listen
    \/ worker_service_error
    \/ worker_exit

\* the same client, started again after a stop or a failed start
RestartNext ==
    \/ restart_server
    \/ simple_start_poll
    \/ simple_start_select
    \/ simple_start_drain
    \/ simple_start_drain_read
    \/ fixed_start_wait
    \/ fixed_start_timeout
    \/ http_start_poll
    \/ http_start_readline
    \/ http_start_after_loop
    \/ start_fail
    \/ stdio_call
    \/ start_initialize
    \/ simple_call_read
    \/ simple_call_timeout
    \/ fixed_call_wait
    \/ fixed_call_timeout
    \/ read_stdout
    \/ read_stderr
    \/ readers_exit
    \/ http_call
    \/ stop_server
    \/ stop_wait_exited
    \/ stop_wait_timeout
    \/ stop_kill_wait
    \/ scope_raise
    \/ scope_leave
    \/ worker_ready
    \/ worker_log
    \/ worker_respond
    \/ worker_banner
    \/ worker_announce
    \/ worker_listen
    \/ worker_service_error
    \/ worker_exit

----------------------------------------------------------------------------
(* The line-transport worker simple_gpio_server.py: main() *)

\* request.get("id", 1) on an object without the key "id"
absent == 0
\* "id": None
null == 0

\* A line of input, by what json.loads makes of it: an object (with or without
\* "id" and "method"), another JSON value (a list, a number, a string, null),
\* text that does not parse, or only white space
EchoLines ==
    [shape : {"object"}, id : 0..MaxId, method : BOOLEAN]
        \cup [shape : {"value", "text", "blank"}, id : {absent}, method : {FALSE}]

EchoInputs == UNION {[1..n -> EchoLines] : n \in 0..MaxLines}

\* print("READY", flush=True)
ready_line == [t |-> "text", id |-> null, method |-> "READY"]

\* json.loads(line): the parsed value and its Python type, or JSONDecodeError
json_loads(line) ==
    CASE line.shape = "text" -> [raised |-> TRUE, type |-> "none", id |-> absent, method |-> FALSE]
      [] line.shape = "object" -> [raised |-> FALSE, type |-> "dict", id |-> line.id, method |-> line.method]
      [] OTHER -> [raised |-> FALSE, type |-> "other", id |-> absent, method |-> FALSE]

\* the response built from a parsed object
response(request) ==
    [t |-> "result",
     id |-> IF request.id = absent THEN 1 ELSE request.id,
     method |-> IF request.method THEN "given" ELSE "unknown"]

\* the response to a line that does not parse
error_response == [t |-> "error", id |-> null, method |-> "-32700"]

NoEcho ==
    /\ echo_pc = "off"
    /\ echo_in = <<>>
    /\ echo_out = <<>>
    /\ echo_pairs = <<>>

echoFrame == <<ctlVars, cliVars, syncVars, handlerVars, portVars, setupVars>>

\* history: the line just read and the part of standard output written for it
Handled(line, out) ==
    Append(echo_pairs, [line |-> line, from |-> Len(echo_out), to |-> Len(out)])

\* main before the loop
echo_boot ==
    /\ echo_pc = "boot"
    /\ echo_out' = Append(echo_out, ready_line)
    /\ echo_pc' = "loop"
    /\ UNCHANGED <<echo_in, echo_pairs>>
    /\ UNCHANGED echoFrame

\* readline returns '': break, finally
echo_eof ==
    /\ echo_pc = "loop"
    /\ echo_in = <<>>
    /\ echo_pc' = "done"
    /\ UNCHANGED <<echo_in, echo_out, echo_pairs>>
    /\ UNCHANGED echoFrame

\* a line of white space: continue
echo_blank ==
    /\ echo_pc = "loop"
    /\ echo_in # <<>>
    /\ Head(echo_in).shape = "blank"
    /\ echo_in' = Tail(echo_in)
    /\ echo_pairs' = Handled(Head(echo_in), echo_out)
    /\ UNCHANGED <<echo_pc, echo_out>>
    /\ UNCHANGED echoFrame

\* a line that parses to an object: the response is printed
echo_respond ==
    /\ echo_pc = "loop"
    /\ echo_in # <<>>
    /\ Head(echo_in).shape # "blank"
    /\ LET request == json_loads(Head(echo_in)) IN
         /\ ~request.raised
         /\ request.type = "dict"
         /\ echo_out' = Append(echo_out, response(request))
    /\ echo_in' = Tail(echo_in)
    /\ echo_pairs' = Handled(Head(echo_in), echo_out')
    /\ UNCHANGED echo_pc
    /\ UNCHANGED echoFrame

\* json.loads raises JSONDecodeError: the error response is printed
echo_parse_error ==
    /\ echo_pc = "loop"
    /\ echo_in # <<>>
    /\ Head(echo_in).shape # "blank"
    /\ json_loads(Head(echo_in)).raised
    /\ echo_out' = Append(echo_out, error_response)
    /\ echo_in' = Tail(echo_in)
    /\ echo_pairs' = Handled(Head(echo_in), echo_out')
    /\ UNCHANGED echo_pc
    /\ UNCHANGED echoFrame

\* a line that parses to a value without .get: request.get raises
\* AttributeError, which only the outer "except Exception" catches
echo_attribute_error ==
    /\ echo_pc = "loop"
    /\ echo_in # <<>>
    /\ Head(echo_in).shape # "blank"
    /\ LET request == json_loads(Head(echo_in)) IN
         /\ ~request.raised
         /\ request.type # "dict"
    /\ echo_pc' = "done"
    /\ echo_in' = Tail(echo_in)
    /\ echo_pairs' = Handled(Head(echo_in), echo_out)
    /\ UNCHANGED echo_out
    /\ UNCHANGED echoFrame

EchoNext ==
    \/ echo_boot
    \/ echo_eof
    \/ echo_blank
    \/ echo_respond
    \/ echo_parse_error
    \/ echo_attribute_error

----------------------------------------------------------------------------
(* Two callers of one SyncGPIOClient: app.py calls the module-level
   mcp_gpio_client from the threads of the web server, and each call runs
   "with self.client: return operation(self.client)" on the same
   SimpleGPIOClient, with no lock *)

Callers == 1..NumCallers

NoCallers == caller_pc = [c \in Callers |-> "idle"] /\ sent = <<>>

\* what the steps of a caller leave alone
syncFrame == <<ctlVars, echoVars, portVars, setupVars, handlerVars, kind, pc, ctx, cur_id, base_url, attempt,
               cause, port_found, error_found, fixedVars, exit_how, cleaned,
               banner, port, listening, histVars, scope, res>>

\* __enter__ -> start_server: "already running" when a handle is there,
\* else Popen
sync_enter(c) ==
    /\ caller_pc[c] = "out"
    /\ IF server_process # 0
       THEN /\ caller_pc' = [caller_pc EXCEPT ![c] = "body"]
            /\ UNCHANGED <<server_process, spawned, alive, pipeVars>>
       ELSE /\ spawned < MaxSpawns
            /\ spawned' = spawned + 1
            /\ alive' = [alive EXCEPT ![spawned + 1] = TRUE]
            /\ server_process' = spawned + 1
            /\ stdin' = <<>>
            /\ stdout' = <<>>
            /\ stderr' = <<>>
            /\ caller_pc' = [caller_pc EXCEPT ![c] = "starting"]
    /\ UNCHANGED <<request_id, sig>>
    /\ UNCHANGED <<syncFrame, sent>>

\* start_server after Popen, taken as one step: the ready signal came and
\* initialize was answered, or not, and then terminate(), None and raise,
\* which leaves the with statement
sync_started(c) ==
    /\ caller_pc[c] = "starting"
    /\ \/ /\ Attached
          /\ caller_pc' = [caller_pc EXCEPT ![c] = "body"]
          /\ UNCHANGED <<server_process, sig, pipeVars>>
       \/ /\ caller_pc' = [caller_pc EXCEPT ![c] = "out"]
          /\ IF server_process # 0
             THEN sig' = terminate(server_process) /\ Detach
             ELSE UNCHANGED <<server_process, sig, pipeVars>>
    /\ UNCHANGED <<request_id, spawned, alive>>
    /\ UNCHANGED <<syncFrame, sent>>

\* the operation -> _send_request: the guard, and self.request_id += 1 of
\* _get_next_id
sync_next_id(c) ==
    /\ caller_pc[c] = "body"
    /\ IF server_process = 0
       THEN /\ caller_pc' = [caller_pc EXCEPT ![c] = "exit"]
            /\ UNCHANGED request_id
       ELSE /\ request_id < MaxRequests
            /\ request_id' = request_id + 1
            /\ caller_pc' = [caller_pc EXCEPT ![c] = "send"]
    /\ UNCHANGED <<server_process, spawned, alive, sig, pipeVars>>
    /\ UNCHANGED <<syncFrame, sent>>

\* "return self.request_id" of _get_next_id, which reads the field again, and
\* the write of the request to stdin; self.server_process may be None by now
sync_send(c) ==
    /\ caller_pc[c] = "send"
    /\ IF server_process = 0
       THEN /\ caller_pc' = [caller_pc EXCEPT ![c] = "exit"]
            /\ UNCHANGED <<stdin, sent>>
       ELSE /\ stdin' = IF alive[server_process] THEN Append(stdin, request_id) ELSE stdin
            /\ sent' = IF alive[server_process] THEN Append(sent, request_id) ELSE sent
            /\ caller_pc' = [caller_pc EXCEPT ![c] = IF alive[server_process]
                                                     THEN "wait" ELSE "exit"]
    /\ UNCHANGED <<server_process, request_id, spawned, alive, sig, stdout, stderr>>
    /\ UNCHANGED syncFrame

\* _send_request: select and readline returned a line, or select timed out, or
\* self.server_process is None by now and the attribute access raises
sync_recv(c) ==
    /\ caller_pc[c] = "wait"
    /\ stdout' = IF server_process # 0 /\ stdout # <<>> THEN Tail(stdout) ELSE stdout
    /\ caller_pc' = [caller_pc EXCEPT ![c] = "exit"]
    /\ UNCHANGED <<server_process, request_id, spawned, alive, sig, stdin, stderr>>
    /\ UNCHANGED <<syncFrame, sent>>

\* __exit__ -> stop_server: the guard and terminate()
sync_exit(c) ==
    /\ caller_pc[c] = "exit"
    /\ IF server_process = 0
       THEN /\ caller_pc' = [caller_pc EXCEPT ![c] = "out"]
            /\ sig' = sig
       ELSE /\ caller_pc' = [caller_pc EXCEPT ![c] = "stopping"]
            /\ sig' = terminate(server_process)
    /\ UNCHANGED <<server_process, request_id, spawned, alive, pipeVars>>
    /\ UNCHANGED <<syncFrame, sent>>

\* stop_server: wait(timeout=5.0) timed out: kill()
sync_stop_kill(c) ==
    /\ caller_pc[c] = "stopping"
    /\ Attached
    /\ sig[server_process] = "term"
    /\ sig' = kill(server_process)
    /\ UNCHANGED <<caller_pc, server_process, request_id, spawned, alive, pipeVars>>
    /\ UNCHANGED <<syncFrame, sent>>

\* stop_server: the wait returned, or the handle is None by now and the call
\* on it raised into "except Exception"; finally: self.server_process = None
sync_stopped(c) ==
    /\ caller_pc[c] = "stopping"
    /\ ~Attached
    /\ Detach
    /\ caller_pc' = [caller_pc EXCEPT ![c] = "out"]
    /\ UNCHANGED <<request_id, spawned, alive, sig>>
    /\ UNCHANGED <<syncFrame, sent>>

\* the worker answers the oldest request on its stdin
sync_worker_respond ==
    /\ Attached
    /\ stdin # <<>>
    /\ Len(stdout) < MaxPipe
    /\ stdout' = Append(stdout, Line("resp", Head(stdin), FALSE))
    /\ stdin' = Tail(stdin)
    /\ UNCHANGED <<caller_pc, server_process, request_id, spawned, alive, sig, stderr>>
    /\ UNCHANGED <<syncFrame, sent>>

\* a worker process ends
sync_worker_exit ==
    /\ \E q \in Pids :
         /\ alive[q]
         /\ alive' = [alive EXCEPT ![q] = FALSE]
    /\ UNCHANGED <<caller_pc, server_process, request_id, spawned, sig, pipeVars>>
    /\ UNCHANGED <<syncFrame, sent>>

SyncEnter == \E c \in Callers : sync_enter(c)
SyncStarted == \E c \in Callers : sync_started(c)
SyncNextId == \E c \in Callers : sync_next_id(c)
SyncSend == \E c \in Callers : sync_send(c)
SyncRecv == \E c \in Callers : sync_recv(c)
SyncExit == \E c \in Callers : sync_exit(c)
SyncStopKill == \E c \in Callers : sync_stop_kill(c)
SyncStopped == \E c \in Callers : sync_stopped(c)

SyncNext ==
    \/ SyncEnter
    \/ SyncStarted
    \/ SyncNextId
    \/ SyncSend
    \/ SyncRecv
    \/ SyncExit
    \/ SyncStopKill
    \/ SyncStopped
    \/ sync_worker_respond
    \/ sync_worker_exit

----------------------------------------------------------------------------
(* Specifications *)

\* the controller alone, no client
Init == InitController /\ NoClient /\ scope = "free" /\ NoCallers /\ NoEcho /\ NoHandler /\ NoProbe /\ NoSetups

Next == SetPin \/ ReadPin \/ GetStatus \/ StatusUpdate \/ Cleanup

Spec == Init /\ [][Next]_vars

\* one client and its workers
InitClient ==
    /\ InitController
    /\ NoProbe
    /\ NoSetups
    /\ simulated = TRUE
    /\ \E k \in Kinds : ClientInit(k)
    /\ scope \in {"free", "out"}
    /\ NoCallers
    /\ NoEcho
    /\ NoHandler

SpecClient == InitClient /\ [][ClientNext]_vars

\* one client started more than once
SpecRestart == InitClient /\ [][RestartNext]_vars

\* the shared SyncGPIOClient and its callers
InitSync ==
    /\ InitController
    /\ NoProbe
    /\ NoSetups
    /\ simulated = TRUE
    /\ ClientInit("simple")
    /\ scope = "free"
    /\ caller_pc = [c \in Callers |-> "out"]
    /\ sent = <<>>
    /\ NoEcho
    /\ NoHandler

SpecSync == InitSync /\ [][SyncNext]_vars

\* simple_gpio_server.py run on a finite input that is then closed
InitEcho ==
    /\ InitController
    /\ NoProbe
    /\ NoSetups
    /\ simulated = TRUE
    /\ NoClient
    /\ scope = "free"
    /\ NoCallers
    /\ echo_pc = "boot"
    /\ echo_in \in EchoInputs
    /\ echo_out = <<>>
    /\ echo_pairs = <<>>
    /\ NoHandler

SpecEcho == InitEcho /\ [][EchoNext]_vars

\* the handlers over one controller
InitHandler ==
    /\ InitController
    /\ NoProbe
    /\ NoSetups
    /\ NoClient
    /\ scope = "free"
    /\ NoCallers
    /\ NoEcho
    /\ reply = NoReply
    /\ handler_up = TRUE

SpecHandler == InitHandler /\ [][HandlerNext]_vars

\* the controller with its GPIO.setup calls counted
SpecSetup == Init /\ [][SetupNext]_vars

\* find_available_port among other users of the ports
InitPort ==
    /\ InitController
    /\ NoClient
    /\ scope = "free"
    /\ NoCallers
    /\ NoEcho
    /\ NoHandler
    /\ in_use \in SUBSET PortNumbers
    /\ NoSetups
    /\ probe = [called |-> FALSE, start |-> 0, n |-> 0, busy |-> {}, port |-> 0]

SpecPort == InitPort /\ [][PortNext]_vars

\* the steps the client's own thread takes inside start, call and stop once
\* the method has been entered
ClientStep ==
    \/ simple_start_poll
    \/ simple_start_select
    \/ simple_start_drain
    \/ simple_start_drain_read
    \/ fixed_start_wait
    \/ fixed_start_timeout
    \/ http_start_poll
    \/ http_start_readline
    \/ http_start_after_loop
    \/ start_fail
    \/ start_initialize
    \/ simple_call_read
    \/ simple_call_timeout
    \/ fixed_call_wait
    \/ fixed_call_timeout
    \/ stop_wait_exited
    \/ stop_wait_timeout
    \/ stop_kill_wait

\* a process that was sent SIGKILL, or in which an exception propagates, ends
forced_exit ==
    /\ worker_exit
    /\ \E q \in Pids :
         /\ sig[q] = "kill" \/ exit_how[q] = "raising"
         /\ alive[q]
         /\ ~alive'[q]

\* the deadline of a FixedGPIOClient wait loop passes
fixed_timeout == fixed_start_timeout \/ fixed_call_timeout

\* the client's thread keeps running, time passes, SIGKILL cannot be ignored
\* and an uncaught exception ends its process; a worker is otherwise free to
\* do nothing
SpecClientFair ==
    /\ SpecClient
    /\ WF_vars(ClientStep)
    /\ WF_vars(fixed_timeout)
    /\ WF_vars(forced_exit)

----------------------------------------------------------------------------
(* Claims about GPIOController, checked under Spec *)

AllowList == {4, 5, 6, 12, 13, 16, 17, 18, 19, 20, 21, 22, 23, 24, 25, 26, 27}

HighAliases == {<<"h", "i", "g", "h">>, <<"o", "n">>, <<"1">>, <<"t", "r", "u", "e">>}
LowAliases == {<<"l", "o", "w">>, <<"o", "f", "f">>, <<"0">>, <<"f", "a", "l", "s", "e">>}

\* c is the character a, in either case
SameLetter(c, a) ==
    c = a \/ \E i \in 1..Len(LowerChars) : LowerChars[i] = a /\ UpperChars[i] = c

\* token is alias in any mix of cases, between leading and trailing whitespace
Spells(token, alias) ==
    \E lo \in 1..(Len(token) + 1) :
        /\ lo + Len(alias) - 1 <= Len(token)
        /\ \A i \in 1..Len(token) :
              IF i < lo \/ i >= lo + Len(alias)
              THEN token[i] \in Whitespace
              ELSE SameLetter(token[i], alias[i - lo + 1])

SpellsHigh(token) == \E alias \in HighAliases : Spells(token, alias)
SpellsLow(token) == \E alias \in LowAliases : Spells(token, alias)

\* the hardware layer raised nothing during the last call
HardwareHeld ==
    /\ last.fault = "none"
    /\ last.op = "set" => (simulated \/ hwMode[last.pin] = "output")

\* C1: for a pin outside the allow-list, set_gpio_output and read_gpio_input
\* return a failure result and leave active_pins and initialized as they were.
C1_InvalidPinRejected ==
    (last.op \in {"set", "read"} /\ last.pin \notin AllowList)
        => /\ last.outcome = "returned"
           /\ ~last.success
           /\ active_pins = last.pre_active
           /\ initialized = last.pre_initialized

C1_Witness ==
    /\ last.op \in {"set", "read"}
    /\ last.pin \notin AllowList
    /\ active_pins # {}
    /\ ~last.success

\* C2 (as claimed): a set with a token that is no alias, on an allow-listed pin,
\* returns a failure and leaves the pin's claim, direction and level as before;
\* stated for calls during which no hardware call raised.
C2_InvalidStateLeavesPin ==
    (/\ last.op = "set"
     /\ last.pin \in AllowList
     /\ last.fault = "none"
     /\ ~SpellsHigh(last.state)
     /\ ~SpellsLow(last.state))
        => /\ last.outcome = "returned"
           /\ ~last.success
           /\ (last.pin \in active_pins) = (last.pin \in last.pre_active)
           /\ hwMode[last.pin] = last.pre_mode
           /\ hwLevel[last.pin] = last.pre_level

\* C3: a token that spells a HIGH alias resolves to HIGH, one that spells a LOW
\* alias resolves to LOW, whatever its case and surrounding whitespace, and any
\* other token is rejected as an invalid state.
C3_StateNormalisation ==
    (last.op = "set" /\ last.pin \in AllowList /\ HardwareHeld)
        => /\ last.outcome = "returned"
           /\ SpellsHigh(last.state) => (last.success /\ last.level = "HIGH")
           /\ SpellsLow(last.state) => (last.success /\ last.level = "LOW")
           /\ (~SpellsHigh(last.state) /\ ~SpellsLow(last.state))
                 => (~last.success /\ last.message = "invalid_state")

C3_Witness ==
    /\ last.op = "set"
    /\ last.pin = 18
    /\ last.state = <<"H", "I", "G", "H">>
    /\ last.success
    /\ last.level = "HIGH"

\* C4: on a simulated hardware layer, a read of a pin whose last set succeeded,
\* with no other set on the pin and no cleanup since, succeeds with the level
\* that set resolved to.
C4_RoundTrip ==
    (/\ last.op = "read"
     /\ simulated
     /\ last.fault # "io"
     /\ last.pin \in AllowList
     /\ written[last.pin] # "none")
        => /\ last.outcome = "returned"
           /\ last.success
           /\ last.level = written[last.pin]

C4_Witness ==
    /\ last.op = "read"
    /\ simulated
    /\ last.pin = 22
    /\ written[22] = "HIGH"
    /\ last.success
    /\ last.level = "HIGH"

\* C5: after only successful set/read calls, get_pin_status reports exactly
\* the pins of those calls, each once, and their number as pin_count.
C5_StatusReportsClaimed ==
    (last.op = "status" /\ onlyOk)
        => /\ {last.status_pins[i] : i \in 1..Len(last.status_pins)} = okPins
           /\ Len(last.status_pins) = Cardinality(okPins)
           /\ last.pin_count = Cardinality(okPins)

C5_Witness ==
    /\ last.op = "status"
    /\ onlyOk
    /\ okPins = {18, 22}
    /\ last.pin_count = 2
    /\ last.status_pins = <<22, 18>>

----------------------------------------------------------------------------
(* Claims about the supervisor clients, stated over SpecClient *)

\* C6 (as claimed): every value SimpleGPIOClient._send_request returns comes
\* from a response whose id is the id of the request that call sent; a response
\* that arrives after its call timed out is not returned by the next call.
C6_ResponseMatchesRequest ==
    (kind = "simple" /\ res.op \in {"call", "start"} /\ res.outcome = "ok")
        => res.resp = res.req

\* C7 (as claimed): in both stdio clients, when the worker exits before it has
\* written a readiness marker, start fails because the exit was observed, not
\* because the readiness wait ran to its end.
C7_EarlyExitFailsFast ==
    (/\ kind \in {"simple", "fixed"}
     /\ res.op = "start"
     /\ res.outcome = "error"
     /\ exitedEarly)
        => res.cause = "exited"

\* C8 (as claimed): once start has returned with an error, the process it
\* spawned is no longer running.
C8_FailedStartLeavesNoProcess ==
    (res.op = "start" /\ res.outcome = "error") => ~alive[res.pid]

\* C9 (as claimed): a request issued while the client holds no worker, before
\* any start or after a stop has returned, ends with an error result or an
\* exception.
C9_RequestWithoutWorkerFails ==
    (/\ res.op = "call"
     /\ res.handle = 0
     /\ spawned = 0 \/ stopped)
        => res.outcome = "error"

\* the worker that a returned stop was called on has exited, and the client
\* holds no process handle
StopLeavesNothing ==
    res.op = "stop"
        => /\ server_process = 0
           /\ res.outcome = "stopped" => ~alive[res.pid]

\* a step that sends SIGKILL is taken by a stop whose grace period ran out on
\* a worker that was sent SIGTERM and is still running
KillOnlyAfterGrace ==
    (\E p \in Pids : sig[p] # "kill" /\ sig'[p] = "kill")
        => /\ pc = "stop_wait"
           /\ sig[server_process] = "term"
           /\ alive[server_process]
           /\ sig' = [sig EXCEPT ![server_process] = "kill"]

\* C10: stop sends SIGTERM first and SIGKILL only once the grace period has run
\* out on a worker that is still running; when stop returns, the worker it was
\* called on has exited and server_process / service_process is None.
C10_StopTerminatesWorker == []StopLeavesNothing /\ [][KillOnlyAfterGrace]_vars

C10_Witness ==
    /\ res.op = "stop"
    /\ res.outcome = "stopped"
    /\ res.pid # 0
    /\ sig[res.pid] = "kill"
    /\ ~alive[res.pid]
    /\ server_process = 0

\* what a client object and the processes it spawned consist of, without the
\* history variables
ClientState == <<kind, pc, ctx, server_process, idVars, base_url, fixedVars,
                 procVars, pipeVars>>

\* C11: stop on a client that holds no process (never started, or already
\* stopped) sends no signal, waits on nothing and changes nothing, so a second
\* stop leaves what the first one left.
C11_StopIdempotent ==
    [][(stop_server /\ server_process = 0)
          => /\ UNCHANGED ClientState
             /\ res'.outcome = "noop"]_vars

C11_Witness ==
    /\ res.op = "stop"
    /\ res.outcome = "noop"
    /\ stopped
    /\ spawned = 1
    /\ ~alive[1]
    /\ server_process = 0
    /\ pc = "idle"

\* C12 (as claimed): a with statement that has been left, normally or by an
\* exception of start or of the operation, was closed by a stop, and no worker
\* it spawned is still running.
C12_ScopeLeavesNoWorker ==
    (scope = "out" /\ spawned > 0)
        => /\ stopped
           /\ \A p \in 1..spawned : ~alive[p]

\* C13 (as claimed): a worker that ended by a normal exit, by the SIGTERM that
\* stop sends, or by an uncaught error ran the hardware teardown before it
\* ended, in the stdio server and in the HTTP service.
C13_TeardownBeforeExit ==
    \A p \in Pids :
        exit_how[p] \in {"normal", "term", "error"} => cleaned[p]

\* C14 (as claimed): whatever the worker does, a start, call or stop that has
\* been entered returns, with a result or an error.
C14_NoneBlocksForever == (pc # "idle") ~> (pc = "idle")

----------------------------------------------------------------------------
(* Claims about concurrent callers, stated over SpecSync *)

\* callers whose request has been written to the worker and not yet returned
InFlight == {c \in Callers : caller_pc[c] = "wait"}

\* C15 (as claimed): at most one request is in flight at a time, and no
\* caller's scope exit stops the worker while another caller's request is in
\* flight.
C15_OneRequestInFlight ==
    /\ Cardinality(InFlight) <= 1
    /\ \A c \in Callers : caller_pc[c] = "stopping" => InFlight = {}

\* C28 (as claimed): the ids of the requests that one client object sends are
\* strictly increasing, so no two of its requests carry the same id.
C28_IdsStrictlyIncreasing ==
    \A i, j \in 1..Len(sent) : i < j => sent[i] < sent[j]

----------------------------------------------------------------------------
(* Claims about the line-transport worker, stated over SpecEcho *)

\* the lines read so far that were not white space
Read == {i \in 1..Len(echo_pairs) : echo_pairs[i].line.shape # "blank"}

\* the only line written for the i-th line read, if exactly one was written
OneWritten(i) == echo_pairs[i].to = echo_pairs[i].from + 1

\* C16 (as claimed): every line the worker writes to its standard output is a
\* response envelope, never a readiness marker or other text.
C16_StdoutOnlyResponses ==
    \A i \in 1..Len(echo_out) : echo_out[i].t \in {"result", "error"}

\* C17 (as claimed): a line that is unparseable text, or valid JSON that is
\* not an object, gets an error response, and the loop goes on: it ends only
\* when the input has been read to its end.
C17_MalformedLineAnswered ==
    /\ \A i \in Read :
         echo_pairs[i].line.shape \in {"text", "value"} =>
             /\ OneWritten(i)
             /\ echo_out[echo_pairs[i].to].t = "error"
    /\ echo_pc = "done" => echo_in = <<>>

\* an envelope that does not parse, or lacks the id or the operation
BadEnvelope(line) ==
    \/ line.shape = "text"
    \/ line.shape = "object" /\ (line.id = absent \/ ~line.method)

\* C18 (as claimed): a malformed envelope is answered with an error response
\* whose id is null, never with a success result or an invented id.
C18_BadEnvelopeGetsProtocolError ==
    \A i \in Read :
        BadEnvelope(echo_pairs[i].line) =>
            /\ OneWritten(i)
            /\ echo_out[echo_pairs[i].to].t = "error"
            /\ echo_out[echo_pairs[i].to].id = null

\* every request line read so far has exactly one line of response, and a
\* request that carries an id has it on its response
EachAnsweredOnce ==
    \A i \in Read :
        /\ OneWritten(i)
        /\ echo_out[echo_pairs[i].to].t \in {"result", "error"}
        /\ echo_pairs[i].line.id # absent =>
               echo_out[echo_pairs[i].to].id = echo_pairs[i].line.id

\* the responses are on standard output in the order the lines were read
InOrderRead ==
    \A i, j \in Read : i < j => echo_pairs[i].to <= echo_pairs[j].from

\* end of input ends the loop
EofEndsLoop == (echo_pc = "loop" /\ echo_in = <<>>) => echo_pc' = "done"

\* C19 (as claimed): the worker writes exactly one response line for each
\* request line it reads, in the order read, with the id of the request, and
\* end of input terminates the loop.
C19_OneResponsePerRequest ==
    /\ [](EachAnsweredOnce /\ InOrderRead)
    /\ [][EofEndsLoop]_vars

----------------------------------------------------------------------------
(* Further claims about the supervisor clients, stated over SpecClient *)

\* C21 (as claimed): when the client has read SERVICE_PORT:<port> and goes on
\* to its health check, the worker that wrote the marker, if it still runs, is
\* listening on that port.
C21_MarkerMeansListening ==
    (/\ kind = "http"
     /\ pc = "start_after_loop"
     /\ port_found
     /\ alive[server_process])
        => server_process \in Listener(base_url)

\* a stdio client that holds the handle of a worker that has exited
HandleDead ==
    /\ kind \in {"simple", "fixed"}
    /\ server_process # 0
    /\ ~alive[server_process]

\* the errors of a call whose worker is gone: the write to its stdin fails, or
\* its stdout is at end of file
TransportErrors == {"broken_pipe", "terminated"}

\* a call that ended with a transport error failed, on a worker that is gone
LostMeansDead ==
    (kind \in {"simple", "fixed"} /\ res.op = "call" /\ res.cause \in TransportErrors)
        => /\ res.outcome = "error"
           /\ HandleDead

\* with the handle of a dead worker, a call that returns has failed
DeadHandleFails ==
    (HandleDead /\ pc = "idle" /\ res'.op = "call" /\ res' # res)
        => /\ res'.outcome = "error"
           /\ res'.cause \in TransportErrors

\* with the handle of a dead worker, nothing is written to the pipe, and only
\* stop_server takes the client out of this state
DeadHandleStays ==
    (HandleDead /\ pc = "idle")
        => /\ stdin' = stdin
           /\ HandleDead' \/ pc' = "stop_wait"

FixedResultMatches ==
    (kind = "fixed" /\ res.op = "call" /\ res.cause \in {"none", "server_error"}
       /\ res.outcome # "none")
        => res.resp = res.req

\* the step that takes a response with another id off the queue ends nothing:
\* the call is still waiting, with no result and no exception
DiscardKeepsWaiting ==
    (/\ kind = "fixed"
     /\ pc = "call_wait"
     /\ response_queue # <<>>
     /\ Head(response_queue).src = "stdout"
     /\ Head(response_queue).id # cur_id
     /\ response_queue' = Tail(response_queue))
        => /\ pc' = "call_wait"
           /\ res' = res
           /\ cur_id' = cur_id

\* C30: FixedGPIOClient drops a stdout message whose id is not the id of the
\* outstanding request: it is not returned and raises nothing, and the call
\* goes on waiting for its own id.
C30_MismatchedIdDiscarded ==
    /\ []FixedResultMatches
    /\ [][DiscardKeepsWaiting]_vars

\* the third request is waiting after the late response to the second, which
\* had timed out, was dropped
C30_Witness ==
    /\ kind = "fixed"
    /\ late
    /\ pc = "call_wait"
    /\ ctx = "call"
    /\ cur_id = 3
    /\ response_queue = <<>>

----------------------------------------------------------------------------
(* Further claims about GPIOController, checked under Spec *)

\* C22 (as claimed): whatever hardware call fails, set_gpio_output and
\* read_gpio_input return a result and raise nothing.
C22_HardwareFaultNeverRaises ==
    last.op \in {"set", "read"} => last.outcome = "returned"

\* the last call returned a failure that a failing hardware call caused
HardwareFailure ==
    /\ last.op \in {"set", "read"}
    /\ last.outcome = "returned"
    /\ ~last.success
    /\ last.message \in {"setup_failed", "error"}

\* C23 (as claimed): a call that returns a failure caused by a hardware fault
\* does not leave a pin claimed that was unclaimed before the call.
C23_FailureLeavesPinUnclaimed ==
    (HardwareFailure /\ last.pin \notin last.pre_active)
        => last.pin \notin active_pins

StatusStep == last'.op = "status" /\ last' # last

\* C29: get_pin_status, and a caller's update of the status it returned,
\* leave active_pins and initialized of the controller as they were.
C29_StatusIsPureRead ==
    [][StatusStep => (active_pins' = active_pins /\ initialized' = initialized)]_vars

C29_Witness ==
    /\ last.op = "status"
    /\ handler_keys \subseteq last.status_keys
    /\ last.status_initialized
    /\ initialized
    /\ active_pins = {18, 22}
    /\ last.pin_count = 2

----------------------------------------------------------------------------
(* Claims about the request handlers, stated over SpecHandler *)

\* the last handler call met an exception: in the validation of the
\* arguments, or out of the controller
Excepted ==
    /\ reply.handler \in {"call_tool", "service"}
    /\ reply.why \in {"validation", "controller"}

\* no exception has left a handler, and the request that met one was answered
\* with a failure
NoneEscapes ==
    /\ handler_up
    /\ reply.outcome # "raised"
    /\ Excepted => reply.outcome = "failure"

\* the handler of a request that met an exception changes nothing of its own:
\* the registry is as the operation left it, which had not claimed anything
ExceptionTouchesNothing ==
    reply'.why \in {"validation", "controller"}
        => /\ active_pins' = active_pins
           /\ initialized' = initialized
           /\ hwMode' = hwMode
           /\ hwLevel' = hwLevel

\* C26: an exception raised while a request is handled becomes a failure
\* response for that request and does not leave the handler, so the worker
\* goes on serving, with its registry as the failed operation left it.
C26_HandlerCatchesExceptions ==
    /\ []NoneEscapes
    /\ [][ExceptionTouchesNothing]_vars

\* handle_call_tool has answered a set whose GPIO.setmode raised
C26_Witness ==
    /\ handler_up
    /\ reply.handler = "call_tool"
    /\ reply.name = "set_gpio_pin"
    /\ reply.why = "controller"
    /\ reply.outcome = "failure"
    /\ last.outcome = "raised"

\* the last request named an operation that its handler does not know
UnknownOperation ==
    \/ reply.handler = "call_tool" /\ reply.name \notin AdvertisedTools
    \/ reply.handler = "gpio_control" /\ reply.name \notin KnownActions

\* C27 (as claimed): a request that names an unknown operation is answered
\* with a failure that carries the name it gave.
C27_UnknownOperationEchoed ==
    UnknownOperation
        => /\ reply.outcome \in {"failure", "unknown"}
           /\ reply.echo = reply.name

\* C31 (as claimed): the service answers a set or a read with a success status
\* code if and only if the operation succeeded.
C31_StatusCodeTellsSuccess ==
    reply.handler = "service" => (reply.code = 200 <=> reply.outcome = "result")

\* C32: find_available_port(start, n) returns the lowest port of
\* start..start+n-1 that was free when probed, raises (0) exactly when every
\* port of that range was in use, and never returns a port outside the range.
C32_LowestFreePort ==
    probe.called =>
        LET range == probe.start..(probe.start + probe.n - 1)
            free == range \ probe.busy
        IN  /\ (probe.port = 0) <=> (free = {})
            /\ probe.port # 0 =>
                  /\ probe.port \in free
                  /\ \A q \in free : probe.port <= q

\* a call that had to skip ports in use, and one that found none
C32_Witness ==
    /\ probe.called
    /\ probe.n = MaxProbe
    /\ probe.start \in probe.busy
    /\ probe.port > probe.start

\* the three listings of the valid pins outside the controller
Listings == {list_valid_gpio_pins, direct_list_valid_pins, sync_http_list_valid_pins}

PinOperation == last.op \in {"set", "read"} /\ is_valid_pin(last.pin)

\* the direction the operation claims a pin with
DirectionOf(op) == IF op = "set" THEN "output" ELSE "input"

\* an operation without a hardware fault claims an unclaimed pin in its own
\* direction, and an operation on a claimed pin makes no GPIO.setup call and
\* leaves the pin claimed in the direction it had
ClaimFixesDirection ==
    /\ \A p \in active_pins : hwMode[p] \in {"output", "input"} /\ setups[p] >= 1
    /\ (PinOperation /\ last.pin \notin last.pre_active) =>
          /\ last.fault \in {"none", "io"} =>
                (last.pin \in active_pins /\ last.setup_called)
          /\ last.pin \in active_pins => hwMode[last.pin] = DirectionOf(last.op)
    /\ (PinOperation /\ last.pin \in last.pre_active) =>
          /\ ~last.setup_called
          /\ last.pin \in active_pins
          /\ hwMode[last.pin] = last.pre_mode

\* C34 (as claimed): claiming is idempotent and fixes the direction, and the
\* GPIO.setup call is made at most once per pin between two cleanups.
C34_SetupCalledOnce ==
    /\ ClaimFixesDirection
    /\ \A p \in PinInputs : setups[p] <= 1

\* C34 (amended): claiming is idempotent and fixes the direction, and GPIO.setup
\* is called only for a pin that is not claimed, so that it succeeds at most
\* once per pin between two cleanups; a call that failed left the pin unclaimed
\* and is made again by the next operation on the pin.
C34_ClaimFixesDirection ==
    /\ ClaimFixesDirection
    /\ last.setup_called => last.pin \notin last.pre_active
    /\ \A p \in PinInputs : setups[p] > 1 => ~onlyOk

\* a set on a pin that a read had claimed: still an input, set up once
C34_Witness ==
    /\ last.op = "set"
    /\ last.pin \in last.pre_active
    /\ last.pre_mode = "input"
    /\ hwMode[last.pin] = "input"
    /\ setups[last.pin] = 1

\* C35: after any sequence of set, read, status and cleanup calls, whatever
\* their arguments and whichever hardware call fails, every pin in active_pins
\* is one of the 17 pins of the allow-list, and initialized is True whenever
\* active_pins is not empty.
C35_RegistryWellFormed ==
    /\ active_pins \subseteq valid_pins
    /\ Cardinality(valid_pins) = 17
    /\ active_pins # {} => initialized

\* two pins claimed, then a set of a pin outside the allow-list refused
C35_Witness ==
    /\ last.op = "set"
    /\ last.pin \notin valid_pins
    /\ Cardinality(last.pre_active) = 2
    /\ active_pins = last.pre_active
    /\ initialized

\* the workers of the client that have not exited
LiveWorkers == {q \in Pids : alive[q]}

\* C36 (as claimed): a client owns at most one live worker at any time: a
\* process is spawned only when the handle is None, a start on a client that
\* holds a handle spawns nothing, and no sequence of start, stop and call
\* leaves two of its workers running together.
C36_OneLiveWorker ==
    /\ [](Cardinality(LiveWorkers) <= 1)
    /\ [][spawned' # spawned => server_process = 0]_vars

\* the client takes the head of response_queue in start_server or _send_request
TakesItem ==
    /\ kind = "fixed"
    /\ pc \in {"start_wait", "call_wait"}
    /\ response_queue # <<>>
    /\ response_queue' = Tail(response_queue)

\* C37 (as claimed): in FixedGPIOClient nothing produced for one worker is
\* consumed for a later one: start reports readiness, and a call returns or
\* fails, only on a queue entry read from the worker the client holds, and no
\* reader thread of an earlier worker is running when the next one is spawned.
C37_NothingCrossesWorkers ==
    /\ [][(TakesItem /\ pc' # pc) => Head(response_queue).pid = server_process]_vars
    /\ [][(kind = "fixed" /\ spawned' # spawned)
             => (~stdout_thread /\ ~stderr_thread)]_vars

\* the last operation of the HTTP client was a request that went out
RequestSent == kind = "http" /\ res.op = "call" /\ res.cause # "no_url"

\* C38 (as claimed): SimpleHTTPGPIOClient sends a request only to the port that
\* the worker it holds, still running, has announced: not after stop_service,
\* and not after a start_service that read no SERVICE_PORT line, to the port
\* of an earlier worker that base_url still holds.
C38_RequestsGoToOwnWorker ==
    RequestSent =>
        /\ server_process # 0
        /\ alive[server_process]
        /\ port[server_process] = base_url

====
